---- MODULE Spec2Model ----
(***************************************************************************)
(* Model of web/jrpc/jrpc.go: the duplex (WebSocket) dispatcher of the     *)
(* jRPC service.  One session is one call of Service.HandleWebsocket on    *)
(* one connection: the dispatcher goroutine, the Reader pump               *)
(* (startMessageReader), the Writer pump (startMessageWriter) and the      *)
(* goroutine that calls the method implementation.  The unary dispatcher   *)
(* Service.Handle is modelled as the steps of one HTTP request.            *)
(***************************************************************************)
EXTENDS Integers, Sequences, FiniteSets, TLC

\* ------------------------------------------------------------------ bounds
\* Data frames the peer may send on one connection.
MaxFrames == 2
\* Items the implementation may send on its outbound queue.
MaxItems == 2
\* Payload values 1..NumVals of frames and items.
NumVals == 2

Vals == 1..NumVals

\* The connections served; a session is HandleWebsocket on one of them.
Sessions == {"s1", "s2"}

\* ------------------------------------------------- reflected Go types
\* A named type: import path, package name, type name, kind.
InT == [path |-> "api/pb", pkg |-> "pb", name |-> "In", kind |-> "struct"]
OutT == [path |-> "api/pb", pkg |-> "pb", name |-> "Out", kind |-> "struct"]
\* The input message regenerated in another package: same bare name only.
InAlt == [path |-> "api/v2/pbv2", pkg |-> "pbv2", name |-> "In", kind |-> "struct"]
OtherT == [path |-> "api/pb", pkg |-> "pb", name |-> "X", kind |-> "struct"]
CtxBase == [path |-> "context", pkg |-> "context", name |-> "Context", kind |-> "interface"]
ErrBase == [path |-> "", pkg |-> "", name |-> "error", kind |-> "interface"]

\* A type is a named base under a stack of constructors, outermost first:
\* "ptr" (*T), "chan" (chan T), "<-chan" (receive only), "chan<-" (send only).
Ty(w, b) == [wrap |-> w, base |-> b]

ChanCons == {"chan", "<-chan", "chan<-"}

\* reflect.Type.Kind
Kind(t) ==
    IF t.wrap = <<>> THEN t.base.kind
    ELSE IF Head(t.wrap) = "ptr" THEN "ptr" ELSE "chan"

\* reflect.Type.Elem (of a pointer or a channel type)
Elem(t) == Ty(Tail(t.wrap), t.base)

\* reflect.Type.ChanDir (of a channel type)
ChanDir(t) ==
    CASE Head(t.wrap) = "chan" -> "both"
      [] Head(t.wrap) = "<-chan" -> "recv"
      [] OTHER -> "send"

\* reflect.Type.Name: the bare name of a named type, empty for a composite one
TypeName(t) == IF t.wrap = <<>> THEN t.base.name ELSE ""

\* reflect.Type.String: constructors, then package-qualified name
TypeString(t) == <<t.wrap, t.base.pkg, t.base.name>>

\* reflect.Type.Implements, for the two interfaces the validator asks about
Implements(t, iface) == t = Ty(<<>>, iface)

CtxT == Ty(<<>>, CtxBase)
ErrT == Ty(<<>>, ErrBase)

\* The method's reflected type: parameter types and result types.
\* NumIn / In(i) / NumOut / Out(i) index from 0 as reflect does.
NumIn(mt) == Len(mt.in)
NumOut(mt) == Len(mt.out)
In(mt, i) == mt.in[i + 1]
Out(mt, i) == mt.out[i + 1]

\* typesMatch: identity, else equal String(), else equal Name()
typesMatch(actual, expected) ==
    IF actual = expected THEN TRUE
    ELSE IF TypeString(actual) = TypeString(expected) THEN TRUE
    ELSE TypeName(actual) = TypeName(expected)

\* getProtoMessageType: the Go type registered for a message descriptor
getProtoMessageType(desc) == Ty(<<>>, desc)

\* StreamingType
StreamingTypeUnary == "Unary"
StreamingTypeBidirectional == "Bidirectional"
StreamingTypeServerStream == "ServerStream"
StreamingTypeClientStream == "ClientStream"
StreamingTypeInvalid == "Invalid"

Result(t, e) == [type |-> t, err |-> e]
Invalid(e) == Result(StreamingTypeInvalid, e)

\* Pointer results and queue elements are compared through the pointer.
Deref(t) == IF Kind(t) = "ptr" THEN Elem(t) ELSE t

validateBidirectional(mt, inputType, outputType) ==
    IF NumIn(mt) # 3 \/ NumOut(mt) # 1
    THEN Invalid("bidirectional streaming method must have signature: func(context.Context, chan *InputMsg, chan OutputMsg) error")
    ELSE IF Kind(In(mt, 1)) # "chan" \/ Kind(Elem(In(mt, 1))) # "ptr"
    THEN Invalid("second parameter must be chan *InputMsg")
    ELSE IF ~typesMatch(Elem(Elem(In(mt, 1))), inputType)
    THEN Invalid("input channel type mismatch")
    ELSE IF Kind(In(mt, 2)) # "chan"
    THEN Invalid("third parameter must be chan OutputMsg")
    ELSE IF ~typesMatch(Deref(Elem(In(mt, 2))), outputType)
    THEN Invalid("output channel type mismatch")
    ELSE Result(StreamingTypeBidirectional, "nil")

validateServerStream(mt, inputType, outputType) ==
    IF NumIn(mt) # 3 \/ NumOut(mt) # 1
    THEN Invalid("server streaming method must have signature: func(context.Context, *InputMsg, chan OutputMsg) error")
    ELSE IF Kind(In(mt, 1)) # "ptr"
    THEN Invalid("second parameter must be *InputMsg")
    ELSE IF ~typesMatch(Elem(In(mt, 1)), inputType)
    THEN Invalid("input type mismatch")
    ELSE IF Kind(In(mt, 2)) # "chan" \/ ChanDir(In(mt, 2)) = "recv"
    THEN Invalid("third parameter must be send chan OutputMsg")
    ELSE IF ~typesMatch(Deref(Elem(In(mt, 2))), outputType)
    THEN Invalid("output channel type mismatch")
    ELSE Result(StreamingTypeServerStream, "nil")

validateClientStream(mt, inputType, outputType) ==
    IF NumIn(mt) # 2 \/ NumOut(mt) # 2
    THEN Invalid("client streaming method must have signature: func(context.Context, chan *InputMsg) (OutputMsg, error)")
    ELSE IF Kind(In(mt, 1)) # "chan" \/ Kind(Elem(In(mt, 1))) # "ptr"
    THEN Invalid("second parameter must be chan *InputMsg")
    ELSE IF ~typesMatch(Elem(Elem(In(mt, 1))), inputType)
    THEN Invalid("input channel type mismatch")
    ELSE IF ~typesMatch(Deref(Out(mt, 0)), outputType)
    THEN Invalid("output type mismatch")
    ELSE Result(StreamingTypeClientStream, "nil")

validateUnary(mt, inputType, outputType) ==
    IF NumIn(mt) # 2 \/ NumOut(mt) # 2
    THEN Invalid("unary method must have signature: func(context.Context, *InputMsg) (OutputMsg, error)")
    ELSE IF Kind(In(mt, 1)) # "ptr"
    THEN Invalid("second parameter must be *InputMsg")
    ELSE IF ~typesMatch(Elem(In(mt, 1)), inputType)
    THEN Invalid("input type mismatch")
    ELSE IF ~typesMatch(Deref(Out(mt, 0)), outputType)
    THEN Invalid("output type mismatch")
    ELSE Result(StreamingTypeUnary, "nil")

\* validateMethodSignature(mt, md): the streaming type and the error text
validateMethodSignature(mt, md) ==
    IF NumIn(mt) < 1 \/ ~Implements(In(mt, 0), CtxBase)
    THEN Invalid("first parameter must be context.Context")
    ELSE IF NumOut(mt) < 1 \/ ~Implements(Out(mt, NumOut(mt) - 1), ErrBase)
    THEN Invalid("last return value must be error")
    ELSE LET inputType == getProtoMessageType(md.input)
             outputType == getProtoMessageType(md.output)
         IN  CASE md.serverStreaming /\ md.clientStreaming ->
                    validateBidirectional(mt, inputType, outputType)
               [] md.serverStreaming /\ ~md.clientStreaming ->
                    validateServerStream(mt, inputType, outputType)
               [] ~md.serverStreaming /\ md.clientStreaming ->
                    validateClientStream(mt, inputType, outputType)
               [] OTHER -> validateUnary(mt, inputType, outputType)

\* ------------------------------------------------------------ state
VARIABLES
    md,         \* per session: the method descriptor s.find returns (found, flags, types)
    method,     \* per session: reflect.ValueOf(s.Server).MethodByName (valid, in, out)
    disp,       \* per session: where the dispatcher goroutine is
    final,      \* per session: the dispatcher's final result (hasResp, resp, err)
    ctxDone,    \* per session: the call-scoped context is cancelled
    reader,     \* per session: where the Reader pump is
    rmsg,       \* per session: the message the Reader pump decoded and is pushing
    readCh,     \* per session: the buffered error channel `read` (capacity 1)
    readClosed, \* per session: `read` is closed
    inClosed,   \* per session: the inbound queue is closed
    rlog,       \* per session: outcomes of conn.ReadMessage so far
    peerLeft,   \* per session: data frames the peer may still send
    writer,     \* per session: where the Writer pump is
    wval,       \* per session: the item the Writer pump received and is writing
    outClosed,  \* per session: the outbound queue is closed
    wbroken,    \* per session: a transport write has failed
    impl,       \* per session: where the goroutine calling the implementation is
    implRet,    \* per session: what the implementation returned (resp, err), and
                \* whether a response was returned at end-of-stream, that is with
                \* the inbound queue already closed (eos)
    doneCh,     \* per session: the buffered completion channel `done` (capacity 1)
    sent,       \* per session: items the implementation has sent on the outbound queue
    received,   \* per session: messages the implementation has received
    itemsLeft,  \* per session: items the implementation may still send
    wire,       \* per session: frames written to the transport, in order
    closeLog,   \* per session: the closeWS calls (code, reason), in order
    httpReq,    \* the HTTP request Handle serves (schema entry, method, body)
    httpPc,     \* where Handle is
    httpMsg,    \* Handle's input message `msg`: 0 when empty, else its payload
    httpArgs,   \* the arguments of m.Call in Service.call (ctx, req)
    httpRet,    \* what m.Call returned (res, err)
    httpLog,    \* Handle's effects on the request and the Server, in order
    httpResp    \* the writes to the http.ResponseWriter, in order

vars == <<md, method, disp, final, ctxDone, reader, rmsg, readCh, readClosed,
          inClosed, rlog, peerLeft, writer, wval, outClosed, wbroken, impl,
          implRet, doneCh, sent, received, itemsLeft, wire, closeLog,
          httpReq, httpPc, httpMsg, httpArgs, httpRet, httpLog, httpResp>>

\* The state of Service.Handle.
httpVars == <<httpReq, httpPc, httpMsg, httpArgs, httpRet, httpLog, httpResp>>

\* websocket close codes
CloseNormalClosure == 1000
CloseInternalServerErr == 1011

\* Errors are their texts; "nil" is the nil error.
ErrNormalClose == "websocket: close 1000 (normal)"
ErrAbnormal == "websocket: close 1006 (abnormal closure): unexpected EOF"
ErrNotText == "only text messages are supported"
ErrDecode == "proto: syntax error"
ErrNetClosed == "use of closed network connection"
ErrImpl == "implementation failed"
ErrCanceled == "context canceled"

\* websocket.IsCloseError(err, websocket.CloseNormalClosure)
IsNormalClose(e) == e = ErrNormalClose

\* A close reason: a fixed text followed by an error's text.
Reason(msg, e) == [msg |-> msg, err |-> e]

DataFrame(by, v) ==
    [t |-> "data", by |-> by, v |-> v, code |-> 0, reason |-> Reason("", "")]
CloseFrame(code, reason) ==
    [t |-> "close", by |-> "dispatcher", v |-> 0, code |-> code, reason |-> reason]

\* What one conn.ReadMessage + decode can yield.
Event(t, v) == [t |-> t, v |-> v]
DataEvents == {Event("text", v) : v \in Vals} \cup {Event("binary", 0), Event("badjson", 0)}
EndEvents == {Event("close1000", 0), Event("abort", 0)}

\* conn.ReadMessage on session s: after the connection is closed locally the read
\* fails; before that the peer sends a data frame, a normal closure, or breaks off.
ReadOutcomes(s) ==
    IF closeLog[s] # <<>> THEN {Event("closed", 0)}
    ELSE EndEvents \cup (IF peerLeft[s] > 0 THEN DataEvents ELSE {})

\* readWSMessage: the error it returns for a read outcome ("nil": decoded)
readWSMessage(ev) ==
    CASE ev.t = "text" -> "nil"
      [] ev.t = "binary" -> ErrNotText
      [] ev.t = "badjson" -> ErrDecode
      [] ev.t = "close1000" -> ErrNormalClose
      [] ev.t = "abort" -> ErrAbnormal
      [] OTHER -> ErrNetClosed

\* ---------------------------------------------------------- HandleWebsocket
\* Classify that remembers: once the session's connection has been closed it
\* reports the method as invalid.
ClassifyStateful(s) ==
    IF closeLog[s] # <<>>
    THEN Invalid("first parameter must be context.Context")
    ELSE validateMethodSignature(method[s], md[s])

Classify(s) == validateMethodSignature(method[s], md[s])

\* HandleWebsocket up to the switch: the reason it rejects the call with,
\* or Reason("", "") when it routes the call to a handler.
NoReject == Reason("", "")

\* RejectReason without the test of s.find's error (lines 134-138).
RejectReasonSkipsFind(s) ==
    IF ~method[s].valid THEN Reason("method not found", "")
    ELSE IF Classify(s).err # "nil"
    THEN Reason("invalid method signature: ", Classify(s).err)
    ELSE IF Classify(s).type = StreamingTypeUnary
    THEN Reason("unary methods are not supported over WebSocket", "")
    ELSE IF Classify(s).type \notin {StreamingTypeBidirectional,
                                     StreamingTypeServerStream,
                                     StreamingTypeClientStream}
    THEN Reason("unsupported streaming type", "")
    ELSE NoReject

\* RejectReason without the StreamingTypeUnary case of the switch (lines
\* 160-161): a unary method falls to the default case.
RejectReasonNoUnaryCase(s) ==
    IF ~md[s].found THEN Reason("service or method not found", "")
    ELSE IF ~method[s].valid THEN Reason("method not found", "")
    ELSE IF Classify(s).err # "nil"
    THEN Reason("invalid method signature: ", Classify(s).err)
    ELSE IF Classify(s).type \notin {StreamingTypeBidirectional,
                                     StreamingTypeServerStream,
                                     StreamingTypeClientStream}
    THEN Reason("unsupported streaming type", "")
    ELSE NoReject

\* RejectReason without the IsValid test of MethodByName's result (lines
\* 140-144): a missing implementation goes on to classification.
RejectReasonSkipsLookup(s) ==
    IF ~md[s].found THEN Reason("service or method not found", "")
    ELSE IF Classify(s).err # "nil"
    THEN Reason("invalid method signature: ", Classify(s).err)
    ELSE IF Classify(s).type = StreamingTypeUnary
    THEN Reason("unary methods are not supported over WebSocket", "")
    ELSE IF Classify(s).type \notin {StreamingTypeBidirectional,
                                     StreamingTypeServerStream,
                                     StreamingTypeClientStream}
    THEN Reason("unsupported streaming type", "")
    ELSE NoReject

RejectReason(s) ==
    IF ~md[s].found THEN Reason("service or method not found", "")
    ELSE IF ~method[s].valid THEN Reason("method not found", "")
    ELSE IF Classify(s).err # "nil"
    THEN Reason("invalid method signature: ", Classify(s).err)
    ELSE IF Classify(s).type = StreamingTypeUnary
    THEN Reason("unary methods are not supported over WebSocket", "")
    ELSE IF Classify(s).type \notin {StreamingTypeBidirectional,
                                     StreamingTypeServerStream,
                                     StreamingTypeClientStream}
    THEN Reason("unsupported streaming type", "")
    ELSE NoReject

Routed(s, type) == RejectReason(s) = NoReject /\ Classify(s).type = type

\* The session's convention has an inbound queue / an outbound queue.
HasIn(s) == Classify(s).type \in {StreamingTypeBidirectional, StreamingTypeClientStream}
HasOut(s) == Classify(s).type \in {StreamingTypeBidirectional, StreamingTypeServerStream}

\* closeWS(conn, code, reason) with the transport as it is after the frames w:
\* writes the close control frame (the write may fail) and closes the connection.
closeWS(s, code, reason, w, broken) ==
    /\ closeLog' = [closeLog EXCEPT ![s] = Append(@, [code |-> code, reason |-> reason])]
    /\ \E ok \in BOOLEAN :
        /\ ok => (~broken /\ closeLog[s] = <<>>)
        /\ wire' = [wire EXCEPT ![s] = IF ok THEN Append(w, CloseFrame(code, reason)) ELSE w]
        /\ wbroken' = [wbroken EXCEPT ![s] = broken \/ ~ok]

\* closeFinal with the test `final != nil || !IsCloseError(...)`: a nil error
\* is reported as an internal error.
closeFinalNilIsError(s, e) ==
    IF e # "nil" \/ ~IsNormalClose(e)
    THEN closeWS(s, CloseInternalServerErr, Reason("", e), wire[s], wbroken[s])
    ELSE closeWS(s, CloseNormalClosure, Reason("", ""), wire[s], wbroken[s])

\* closeFinal without the test of the final error: every session ends with 1000.
closeFinalAlwaysNormal(s, e) ==
    closeWS(s, CloseNormalClosure, Reason("", ""), wire[s], wbroken[s])

\* The close every handler ends with: 1011 with the error's text, or 1000.
closeFinal(s, e) ==
    IF e # "nil" /\ ~IsNormalClose(e)
    THEN closeWS(s, CloseInternalServerErr, Reason("", e), wire[s], wbroken[s])
    ELSE closeWS(s, CloseNormalClosure, Reason("", ""), wire[s], wbroken[s])

\* reflect.MakeChan panics on a channel type that is not bidirectional.
MakeChanPanics(t) == ChanDir(t) # "both"

UnchangedConfig == UNCHANGED <<md, method, peerLeft, itemsLeft, httpVars>>
UnchangedReader == UNCHANGED <<reader, rmsg, readCh, readClosed, inClosed, rlog>>
UnchangedWriter == UNCHANGED <<writer, wval, outClosed>>
UnchangedImpl == UNCHANGED <<impl, implRet, doneCh, sent, received>>
UnchangedConn == UNCHANGED <<wire, closeLog, wbroken>>

\* HandleWebsocket lines 134-151 and 160-164: every rejection before a handler.
WSReject(s) ==
    /\ disp[s] = "start"
    /\ RejectReason(s) # NoReject
    /\ closeWS(s, CloseInternalServerErr, RejectReason(s), wire[s], wbroken[s])
    /\ disp' = [disp EXCEPT ![s] = "returned"]
    /\ UNCHANGED <<final, ctxDone, peerLeft, itemsLeft, md, method, httpVars>>
    /\ UnchangedReader /\ UnchangedWriter /\ UnchangedImpl

\* --------------------------------------------- handleBidirectionalStream
\* Lines 356-380: make the queues, the context, start both pumps and the
\* goroutine that calls the implementation.
BidiStart(s) ==
    /\ disp[s] = "start"
    /\ Routed(s, StreamingTypeBidirectional)
    /\ IF MakeChanPanics(In(method[s], 1)) \/ MakeChanPanics(In(method[s], 2))
       THEN /\ disp' = [disp EXCEPT ![s] = "panicked"]
            /\ UNCHANGED <<reader, writer, impl>>
       ELSE /\ disp' = [disp EXCEPT ![s] = "bidi_select"]
            /\ reader' = [reader EXCEPT ![s] = "check"]
            /\ writer' = [writer EXCEPT ![s] = "recv"]
            /\ impl' = [impl EXCEPT ![s] = "running"]
    /\ UNCHANGED <<final, ctxDone, rmsg, readCh, readClosed, inClosed, rlog,
                   wval, outClosed, implRet, doneCh, sent, received>>
    /\ UnchangedConfig /\ UnchangedConn

\* Lines 383-384: the select takes the implementation's completion.
BidiSelectDone(s) ==
    /\ disp[s] = "bidi_select"
    /\ doneCh[s] # <<>>
    /\ final' = [final EXCEPT ![s] = [hasResp |-> FALSE, resp |-> 0, err |-> Head(doneCh[s]).err]]
    /\ doneCh' = [doneCh EXCEPT ![s] = Tail(@)]
    /\ disp' = [disp EXCEPT ![s] = "bidi_drain"]
    /\ UNCHANGED <<ctxDone, impl, implRet, sent, received>>
    /\ UnchangedConfig /\ UnchangedConn /\ UnchangedReader /\ UnchangedWriter

\* BidiSelectRead taking the closed, empty `read` channel for a failure.
BidiSelectReadClosedIsError(s) ==
    /\ disp[s] = "bidi_select"
    /\ readCh[s] # <<>> \/ readClosed[s]
    /\ final' = [final EXCEPT ![s] =
           [hasResp |-> FALSE, resp |-> 0,
            err |-> IF readCh[s] # <<>> THEN Head(readCh[s]) ELSE ErrNetClosed]]
    /\ readCh' = [readCh EXCEPT ![s] = IF @ # <<>> THEN Tail(@) ELSE @]
    /\ disp' = [disp EXCEPT ![s] = "bidi_drain"]
    /\ UNCHANGED <<ctxDone, reader, rmsg, readClosed, inClosed, rlog>>
    /\ UnchangedConfig /\ UnchangedConn /\ UnchangedImpl /\ UnchangedWriter

\* Lines 383, 385: the select takes the Reader pump's channel: an error it
\* surfaced, or nil once the channel is closed and empty.
BidiSelectRead(s) ==
    /\ disp[s] = "bidi_select"
    /\ readCh[s] # <<>> \/ readClosed[s]
    /\ final' = [final EXCEPT ![s] =
           [hasResp |-> FALSE, resp |-> 0,
            err |-> IF readCh[s] # <<>> THEN Head(readCh[s]) ELSE "nil"]]
    /\ readCh' = [readCh EXCEPT ![s] = IF @ # <<>> THEN Tail(@) ELSE @]
    /\ disp' = [disp EXCEPT ![s] = "bidi_drain"]
    /\ UNCHANGED <<ctxDone, reader, rmsg, readClosed, inClosed, rlog>>
    /\ UnchangedConfig /\ UnchangedConn /\ UnchangedImpl /\ UnchangedWriter

\* BidiFinish with the `return` after the error close missing: the error path
\* falls through to the normal close.
BidiFinishFallsThrough(s) ==
    /\ disp[s] = "bidi_drain"
    /\ writer[s] = "exited"
    /\ closeLog' = [closeLog EXCEPT ![s] =
           IF final[s].err # "nil" /\ ~IsNormalClose(final[s].err)
           THEN Append(Append(@, [code |-> CloseInternalServerErr, reason |-> Reason("", final[s].err)]),
                       [code |-> CloseNormalClosure, reason |-> Reason("", "")])
           ELSE Append(@, [code |-> CloseNormalClosure, reason |-> Reason("", "")])]
    /\ disp' = [disp EXCEPT ![s] = "cancel"]
    /\ UNCHANGED <<final, ctxDone, wire, wbroken>>
    /\ UnchangedConfig /\ UnchangedReader /\ UnchangedWriter /\ UnchangedImpl

\* BidiFinish without the wait on `write`: the session is closed while the
\* Writer pump may still be draining.
BidiFinishNoDrain(s) ==
    /\ disp[s] = "bidi_drain"
    /\ closeFinal(s, final[s].err)
    /\ disp' = [disp EXCEPT ![s] = "cancel"]
    /\ UNCHANGED <<final, ctxDone>>
    /\ UnchangedConfig /\ UnchangedReader /\ UnchangedWriter /\ UnchangedImpl

\* BidiFinish that also waits for the Reader pump to exit before it closes.
BidiFinishAwaitsReader(s) ==
    /\ disp[s] = "bidi_drain"
    /\ writer[s] = "exited"
    /\ reader[s] = "exited"
    /\ closeFinal(s, final[s].err)
    /\ disp' = [disp EXCEPT ![s] = "cancel"]
    /\ UNCHANGED <<final, ctxDone>>
    /\ UnchangedConfig /\ UnchangedReader /\ UnchangedWriter /\ UnchangedImpl

\* Lines 387-393: wait for the Writer pump, then close the session.
BidiFinish(s) ==
    /\ disp[s] = "bidi_drain"
    /\ writer[s] = "exited"
    /\ closeFinal(s, final[s].err)
    /\ disp' = [disp EXCEPT ![s] = "cancel"]
    /\ UNCHANGED <<final, ctxDone>>
    /\ UnchangedConfig /\ UnchangedReader /\ UnchangedWriter /\ UnchangedImpl

\* Cancel with one cancellation scope shared by all sessions.
CancelShared(s) ==
    /\ disp[s] = "cancel"
    /\ ctxDone' = [t \in Sessions |-> TRUE]
    /\ disp' = [disp EXCEPT ![s] = "returned"]
    /\ UNCHANGED final
    /\ UnchangedConfig /\ UnchangedConn /\ UnchangedReader /\ UnchangedWriter
    /\ UnchangedImpl

\* defer cancel() of the three handlers: runs as the handler returns.
Cancel(s) ==
    /\ disp[s] = "cancel"
    /\ ctxDone' = [ctxDone EXCEPT ![s] = TRUE]
    /\ disp' = [disp EXCEPT ![s] = "returned"]
    /\ UNCHANGED final
    /\ UnchangedConfig /\ UnchangedConn /\ UnchangedReader /\ UnchangedWriter
    /\ UnchangedImpl

\* ---------------------------------------------------- handleServerStream
\* ServerStart that also starts a Reader pump, as the other two handlers do.
ServerStartWithReader(s) ==
    /\ disp[s] = "start"
    /\ Routed(s, StreamingTypeServerStream)
    /\ disp' = [disp EXCEPT ![s] =
           IF MakeChanPanics(In(method[s], 2)) THEN "panicked" ELSE "ss_read"]
    /\ reader' = [reader EXCEPT ![s] = "check"]
    /\ UNCHANGED <<final, ctxDone, rmsg, readCh, readClosed, inClosed, rlog>>
    /\ UnchangedConfig /\ UnchangedConn /\ UnchangedWriter /\ UnchangedImpl

\* Lines 398-400: make the outbound queue.
ServerStart(s) ==
    /\ disp[s] = "start"
    /\ Routed(s, StreamingTypeServerStream)
    /\ disp' = [disp EXCEPT ![s] =
           IF MakeChanPanics(In(method[s], 2)) THEN "panicked" ELSE "ss_read"]
    /\ UNCHANGED <<final, ctxDone>>
    /\ UnchangedConfig /\ UnchangedConn /\ UnchangedReader /\ UnchangedWriter
    /\ UnchangedImpl

\* reflect.Type.AssignableTo of the message s.message builds to the
\* implementation's request parameter.
RequestAssignable(s) == Ty(<<"ptr">>, md[s].input) = In(method[s], 1)

\* Lines 402-456: read the initial message, start the Writer pump, check the
\* request's type, start the goroutine that calls the implementation.
ServerReadInitial(s) ==
    /\ disp[s] = "ss_read"
    /\ \E ev \in ReadOutcomes(s) :
        /\ rlog' = [rlog EXCEPT ![s] = Append(@, ev)]
        /\ peerLeft' = [peerLeft EXCEPT ![s] = IF ev \in DataEvents THEN @ - 1 ELSE @]
        /\ IF readWSMessage(ev) # "nil"
           THEN /\ closeWS(s, CloseInternalServerErr,
                           Reason("failed to read initial message: ", readWSMessage(ev)),
                           wire[s], wbroken[s])
                /\ disp' = [disp EXCEPT ![s] = "returned"]
                /\ UNCHANGED <<writer, impl>>
           ELSE /\ writer' = [writer EXCEPT ![s] = "recv"]
                /\ IF ~RequestAssignable(s)
                   THEN /\ closeWS(s, CloseInternalServerErr,
                                   Reason("request message is of wrong type", ""),
                                   wire[s], wbroken[s])
                        /\ disp' = [disp EXCEPT ![s] = "cancel"]
                        /\ UNCHANGED impl
                   ELSE /\ impl' = [impl EXCEPT ![s] = "running"]
                        /\ disp' = [disp EXCEPT ![s] = "ss_done"]
                        /\ UnchangedConn
    /\ UNCHANGED <<final, ctxDone, md, method, itemsLeft, httpVars, reader, rmsg, readCh,
                   readClosed, inClosed, wval, outClosed, implRet, doneCh, sent,
                   received>>

\* Line 458: final := <-done
ServerAwaitDone(s) ==
    /\ disp[s] = "ss_done"
    /\ doneCh[s] # <<>>
    /\ final' = [final EXCEPT ![s] = [hasResp |-> FALSE, resp |-> 0, err |-> Head(doneCh[s]).err]]
    /\ doneCh' = [doneCh EXCEPT ![s] = Tail(@)]
    /\ disp' = [disp EXCEPT ![s] = "ss_drain"]
    /\ UNCHANGED <<ctxDone, impl, implRet, sent, received>>
    /\ UnchangedConfig /\ UnchangedConn /\ UnchangedReader /\ UnchangedWriter

\* ServerFinish without the wait on `write`.
ServerFinishNoDrain(s) ==
    /\ disp[s] = "ss_drain"
    /\ closeFinal(s, final[s].err)
    /\ disp' = [disp EXCEPT ![s] = "cancel"]
    /\ UNCHANGED <<final, ctxDone>>
    /\ UnchangedConfig /\ UnchangedReader /\ UnchangedWriter /\ UnchangedImpl

\* Lines 459-465: wait for the Writer pump, then close the session.
ServerFinish(s) ==
    /\ disp[s] = "ss_drain"
    /\ writer[s] = "exited"
    /\ closeFinal(s, final[s].err)
    /\ disp' = [disp EXCEPT ![s] = "cancel"]
    /\ UNCHANGED <<final, ctxDone>>
    /\ UnchangedConfig /\ UnchangedReader /\ UnchangedWriter /\ UnchangedImpl

\* ---------------------------------------------------- handleClientStream
\* Lines 470-502: make the inbound queue, the context, start the Reader pump
\* and the goroutine that calls the implementation.
ClientStart(s) ==
    /\ disp[s] = "start"
    /\ Routed(s, StreamingTypeClientStream)
    /\ IF MakeChanPanics(In(method[s], 1))
       THEN /\ disp' = [disp EXCEPT ![s] = "panicked"]
            /\ UNCHANGED <<reader, impl>>
       ELSE /\ disp' = [disp EXCEPT ![s] = "cs_select"]
            /\ reader' = [reader EXCEPT ![s] = "check"]
            /\ impl' = [impl EXCEPT ![s] = "running"]
    /\ UNCHANGED <<final, ctxDone, rmsg, readCh, readClosed, inClosed, rlog,
                   implRet, doneCh, sent, received>>
    /\ UnchangedConfig /\ UnchangedConn /\ UnchangedWriter

\* Lines 508-509: the select takes the implementation's result.
ClientSelectDone(s) ==
    /\ disp[s] = "cs_select"
    /\ doneCh[s] # <<>>
    /\ final' = [final EXCEPT ![s] = Head(doneCh[s])]
    /\ doneCh' = [doneCh EXCEPT ![s] = Tail(@)]
    /\ disp' = [disp EXCEPT ![s] = "cs_finish"]
    /\ UNCHANGED <<ctxDone, impl, implRet, sent, received>>
    /\ UnchangedConfig /\ UnchangedConn /\ UnchangedReader /\ UnchangedWriter

\* Lines 508, 510-511: the select takes the Reader pump's channel; only the
\* error of final is set, its response stays nil.
ClientSelectRead(s) ==
    /\ disp[s] = "cs_select"
    /\ readCh[s] # <<>> \/ readClosed[s]
    /\ final' = [final EXCEPT ![s] =
           [hasResp |-> FALSE, resp |-> 0,
            err |-> IF readCh[s] # <<>> THEN Head(readCh[s]) ELSE "nil"]]
    /\ readCh' = [readCh EXCEPT ![s] = IF @ # <<>> THEN Tail(@) ELSE @]
    /\ disp' = [disp EXCEPT ![s] = "cs_finish"]
    /\ UNCHANGED <<ctxDone, reader, rmsg, readClosed, inClosed, rlog>>
    /\ UnchangedConfig /\ UnchangedConn /\ UnchangedImpl /\ UnchangedWriter

\* ClientFinish without the test of the final error (lines 514-517): the
\* response is written whatever the select took.
ClientFinishIgnoresError(s) ==
    /\ disp[s] = "cs_finish"
    /\ \E ok \in BOOLEAN :
          /\ ok => (~wbroken[s] /\ closeLog[s] = <<>>)
          /\ IF ok
             THEN closeWS(s, CloseNormalClosure, Reason("", ""),
                          Append(wire[s], DataFrame("dispatcher", final[s].resp)), FALSE)
             ELSE closeWS(s, CloseInternalServerErr, Reason("", "write failed"),
                          wire[s], TRUE)
    /\ disp' = [disp EXCEPT ![s] = "cancel"]
    /\ UNCHANGED <<final, ctxDone>>
    /\ UnchangedConfig /\ UnchangedReader /\ UnchangedWriter /\ UnchangedImpl

\* Lines 514-526: close with the error, or write the response and close.
ClientFinish(s) ==
    /\ disp[s] = "cs_finish"
    /\ IF final[s].err # "nil" /\ ~IsNormalClose(final[s].err)
       THEN closeWS(s, CloseInternalServerErr, Reason("", final[s].err), wire[s], wbroken[s])
       ELSE IF final[s].hasResp
       THEN \E ok \in BOOLEAN :
              /\ ok => (~wbroken[s] /\ closeLog[s] = <<>>)
              /\ IF ok
                 THEN closeWS(s, CloseNormalClosure, Reason("", ""),
                              Append(wire[s], DataFrame("dispatcher", final[s].resp)), FALSE)
                 ELSE closeWS(s, CloseInternalServerErr, Reason("", "write failed"),
                              wire[s], TRUE)
       ELSE closeWS(s, CloseNormalClosure, Reason("", ""), wire[s], wbroken[s])
    /\ disp' = [disp EXCEPT ![s] = "cancel"]
    /\ UNCHANGED <<final, ctxDone>>
    /\ UnchangedConfig /\ UnchangedReader /\ UnchangedWriter /\ UnchangedImpl

\* ---------------------------------------------------- startMessageReader
\* Lines 564-568: the cancellation check at the top of the loop.
ReaderCheck(s) ==
    /\ reader[s] = "check"
    /\ reader' = [reader EXCEPT ![s] = IF ctxDone[s] THEN "closeIn" ELSE "read"]
    /\ UNCHANGED <<disp, final, ctxDone, rmsg, readCh, readClosed, inClosed, rlog>>
    /\ UnchangedConfig /\ UnchangedConn /\ UnchangedWriter /\ UnchangedImpl

\* ReaderRead without the IsCloseError test of line 573: the peer's normal
\* closure is surfaced like any other error.
ReaderReadSurfacesClosure(s) ==
    /\ reader[s] = "read"
    /\ \E ev \in ReadOutcomes(s) :
        /\ rlog' = [rlog EXCEPT ![s] = Append(@, ev)]
        /\ peerLeft' = [peerLeft EXCEPT ![s] = IF ev \in DataEvents THEN @ - 1 ELSE @]
        /\ IF readWSMessage(ev) = "nil"
           THEN /\ rmsg' = [rmsg EXCEPT ![s] = ev.v]
                /\ reader' = [reader EXCEPT ![s] = "check2"]
                /\ UNCHANGED readCh
           ELSE /\ readCh' = [readCh EXCEPT ![s] = Append(@, readWSMessage(ev))]
                /\ reader' = [reader EXCEPT ![s] = "closeIn"]
                /\ UNCHANGED rmsg
    /\ UNCHANGED <<disp, final, ctxDone, readClosed, inClosed, md, method, itemsLeft,
                   httpVars>>
    /\ UnchangedConn /\ UnchangedWriter /\ UnchangedImpl

\* Lines 570-578: one blocking read and decode; a normal closure ends the pump
\* silently, any other error is surfaced on `read`.
ReaderRead(s) ==
    /\ reader[s] = "read"
    /\ \E ev \in ReadOutcomes(s) :
        /\ rlog' = [rlog EXCEPT ![s] = Append(@, ev)]
        /\ peerLeft' = [peerLeft EXCEPT ![s] = IF ev \in DataEvents THEN @ - 1 ELSE @]
        /\ IF readWSMessage(ev) = "nil"
           THEN /\ rmsg' = [rmsg EXCEPT ![s] = ev.v]
                /\ reader' = [reader EXCEPT ![s] = "check2"]
                /\ UNCHANGED readCh
           ELSE /\ readCh' = [readCh EXCEPT ![s] =
                       IF IsNormalClose(readWSMessage(ev)) THEN @
                       ELSE Append(@, readWSMessage(ev))]
                /\ reader' = [reader EXCEPT ![s] = "closeIn"]
                /\ UNCHANGED rmsg
    /\ UNCHANGED <<disp, final, ctxDone, readClosed, inClosed, md, method, itemsLeft,
                   httpVars>>
    /\ UnchangedConn /\ UnchangedWriter /\ UnchangedImpl

\* Lines 580-583: the cancellation check before the push.
ReaderCheckPush(s) ==
    /\ reader[s] = "check2"
    /\ reader' = [reader EXCEPT ![s] = IF ctxDone[s] THEN "closeIn" ELSE "send"]
    /\ UNCHANGED <<disp, final, ctxDone, rmsg, readCh, readClosed, inClosed, rlog>>
    /\ UnchangedConfig /\ UnchangedConn /\ UnchangedWriter /\ UnchangedImpl

\* ReaderSend that stays at the push: the message just decoded is handed over
\* again.
ReaderSendRepeats(s) ==
    /\ reader[s] = "send"
    /\ impl[s] = "running"
    /\ Len(received[s]) < MaxFrames + 1
    /\ received' = [received EXCEPT ![s] = Append(@, rmsg[s])]
    /\ UNCHANGED <<disp, final, ctxDone, rmsg, readCh, readClosed, inClosed, rlog,
                   impl, implRet, doneCh, sent, reader>>
    /\ UnchangedConfig /\ UnchangedConn /\ UnchangedWriter

\* Line 584 with the implementation's receive: the inbound queue is unbuffered,
\* the push completes when the implementation takes the message.
ReaderSend(s) ==
    /\ reader[s] = "send"
    /\ impl[s] = "running"
    /\ received' = [received EXCEPT ![s] = Append(@, rmsg[s])]
    /\ reader' = [reader EXCEPT ![s] = "check"]
    /\ UNCHANGED <<disp, final, ctxDone, rmsg, readCh, readClosed, inClosed, rlog,
                   impl, implRet, doneCh, sent>>
    /\ UnchangedConfig /\ UnchangedConn /\ UnchangedWriter

\* ReaderCloseIn without `defer inChan.Close()`: the pump leaves its loop and
\* the inbound queue stays open.
ReaderLeavesInOpen(s) ==
    /\ reader[s] = "closeIn"
    /\ reader' = [reader EXCEPT ![s] = "closeRead"]
    /\ UNCHANGED <<disp, final, ctxDone, rmsg, readCh, readClosed, inClosed, rlog>>
    /\ UnchangedConfig /\ UnchangedConn /\ UnchangedWriter /\ UnchangedImpl

\* Line 562 (deferred): close the inbound queue.
ReaderCloseIn(s) ==
    /\ reader[s] = "closeIn"
    /\ inClosed' = [inClosed EXCEPT ![s] = TRUE]
    /\ reader' = [reader EXCEPT ![s] = "closeRead"]
    /\ UNCHANGED <<disp, final, ctxDone, rmsg, readCh, readClosed, rlog>>
    /\ UnchangedConfig /\ UnchangedConn /\ UnchangedWriter /\ UnchangedImpl

\* Line 561 (deferred): close `read`; the pump has exited.
ReaderCloseRead(s) ==
    /\ reader[s] = "closeRead"
    /\ readClosed' = [readClosed EXCEPT ![s] = TRUE]
    /\ reader' = [reader EXCEPT ![s] = "exited"]
    /\ UNCHANGED <<disp, final, ctxDone, rmsg, readCh, inClosed, rlog>>
    /\ UnchangedConfig /\ UnchangedConn /\ UnchangedWriter /\ UnchangedImpl

\* ---------------------------------------------------- startMessageWriter
\* Line 620 with the implementation's send: the outbound queue is unbuffered,
\* the implementation's send completes when the Writer pump takes the item.
WriterRecv(s) ==
    /\ writer[s] = "recv"
    /\ impl[s] = "running"
    /\ itemsLeft[s] > 0
    /\ \E v \in Vals :
        /\ sent' = [sent EXCEPT ![s] = Append(@, v)]
        /\ wval' = [wval EXCEPT ![s] = v]
    /\ itemsLeft' = [itemsLeft EXCEPT ![s] = @ - 1]
    /\ writer' = [writer EXCEPT ![s] = "write"]
    /\ UNCHANGED <<disp, final, ctxDone, md, method, peerLeft, outClosed, httpVars,
                   impl, implRet, doneCh, received>>
    /\ UnchangedConn /\ UnchangedReader

\* Lines 620-623 and 618: the outbound queue is closed and empty; the pump exits.
WriterRecvClosed(s) ==
    /\ writer[s] = "recv"
    /\ outClosed[s]
    /\ writer' = [writer EXCEPT ![s] = "exited"]
    /\ UNCHANGED <<disp, final, ctxDone, wval, outClosed>>
    /\ UnchangedConfig /\ UnchangedConn /\ UnchangedReader /\ UnchangedImpl

\* WriterWrite that retries a write it took for failed: the frame goes out twice.
WriterWriteTwice(s) ==
    /\ writer[s] = "write"
    /\ ~wbroken[s] /\ closeLog[s] = <<>>
    /\ wire' = [wire EXCEPT ![s] =
           Append(Append(@, DataFrame("writer", wval[s])), DataFrame("writer", wval[s]))]
    /\ writer' = [writer EXCEPT ![s] = "recv"]
    /\ UNCHANGED <<disp, final, ctxDone, wval, outClosed, closeLog, wbroken>>
    /\ UnchangedConfig /\ UnchangedReader /\ UnchangedImpl

\* Lines 625-629 (writeWSMessage): encode and write one data frame; a failure
\* is logged and ends the pump.
WriterWrite(s) ==
    /\ writer[s] = "write"
    /\ \E ok \in BOOLEAN :
        /\ ok => (~wbroken[s] /\ closeLog[s] = <<>>)
        /\ IF ok
           THEN /\ wire' = [wire EXCEPT ![s] = Append(@, DataFrame("writer", wval[s]))]
                /\ writer' = [writer EXCEPT ![s] = "recv"]
                /\ UNCHANGED wbroken
           ELSE /\ wbroken' = [wbroken EXCEPT ![s] = TRUE]
                /\ writer' = [writer EXCEPT ![s] = "exited"]
                /\ UNCHANGED wire
    /\ UNCHANGED <<disp, final, ctxDone, wval, outClosed, closeLog>>
    /\ UnchangedConfig /\ UnchangedReader /\ UnchangedImpl

\* ------------------------------------- the goroutine calling the implementation
\* What the implementation (user code) may return.
ImplErrors == {"nil", ErrImpl, ErrNormalClose}
ImplResponses == {0} \cup Vals

\* m.Call returns (lines 368, 444, 484): the implementation decided to return.
ImplReturn(s) ==
    /\ impl[s] = "running"
    /\ \E e \in ImplErrors, r \in (IF HasOut(s) THEN {0} ELSE ImplResponses) :
        implRet' = [implRet EXCEPT ![s] =
            [resp |-> r, err |-> e, eos |-> r # 0 /\ inClosed[s]]]
    /\ impl' = [impl EXCEPT ![s] = "report"]
    /\ UNCHANGED <<disp, final, ctxDone, doneCh, sent, received>>
    /\ UnchangedConfig /\ UnchangedConn /\ UnchangedReader /\ UnchangedWriter

\* m.Call returns because the implementation saw its context cancelled.
ImplCancelled(s) ==
    /\ impl[s] = "running"
    /\ ctxDone[s]
    /\ implRet' = [implRet EXCEPT ![s] =
           [resp |-> 0, err |-> ErrCanceled, eos |-> FALSE]]
    /\ impl' = [impl EXCEPT ![s] = "report"]
    /\ UNCHANGED <<disp, final, ctxDone, doneCh, sent, received>>
    /\ UnchangedConfig /\ UnchangedConn /\ UnchangedReader /\ UnchangedWriter

\* ImplReport that sends the error and then, the `else` missing, a nil as well.
ImplReportTwice(s) ==
    /\ impl[s] = "report"
    /\ doneCh' = [doneCh EXCEPT ![s] = Append(Append(@,
           [hasResp |-> FALSE, resp |-> 0, err |-> implRet[s].err]),
           [hasResp |-> FALSE, resp |-> 0, err |-> "nil"])]
    /\ impl' = [impl EXCEPT ![s] = IF HasOut(s) THEN "closeOut" ELSE "exited"]
    /\ UNCHANGED <<disp, final, ctxDone, implRet, sent, received>>
    /\ UnchangedConfig /\ UnchangedConn /\ UnchangedReader /\ UnchangedWriter

\* Lines 369-378, 445-454, 485-501: report on `done` (capacity 1). A client
\* streaming result carries the response only when the error is nil.
ImplReport(s) ==
    /\ impl[s] = "report"
    /\ Len(doneCh[s]) < 1
    /\ doneCh' = [doneCh EXCEPT ![s] = Append(@,
           IF HasOut(s) \/ implRet[s].err # "nil"
           THEN [hasResp |-> FALSE, resp |-> 0, err |-> implRet[s].err]
           ELSE [hasResp |-> TRUE, resp |-> implRet[s].resp, err |-> "nil"])]
    /\ impl' = [impl EXCEPT ![s] = IF HasOut(s) THEN "closeOut" ELSE "exited"]
    /\ UNCHANGED <<disp, final, ctxDone, implRet, sent, received>>
    /\ UnchangedConfig /\ UnchangedConn /\ UnchangedReader /\ UnchangedWriter

\* Lines 379, 455: out.Close() after the report.
ImplCloseOut(s) ==
    /\ impl[s] = "closeOut"
    /\ outClosed' = [outClosed EXCEPT ![s] = TRUE]
    /\ impl' = [impl EXCEPT ![s] = "exited"]
    /\ UNCHANGED <<disp, final, ctxDone, writer, wval, implRet, doneCh, sent,
                   received>>
    /\ UnchangedConfig /\ UnchangedConn /\ UnchangedReader

\* ------------------------------------------------------------ Init, Next
\* Method shapes a Server may have under a schema method's name.
FirstParams == {CtxT, Ty(<<>>, InT)}
SecondParams == {Ty(<<"ptr">>, InT), Ty(<<"ptr">>, InAlt), Ty(<<"ptr">>, OtherT),
                 Ty(<<>>, InT), Ty(<<"chan", "ptr">>, InT),
                 Ty(<<"<-chan", "ptr">>, InT), Ty(<<"chan<-", "ptr">>, InT),
                 Ty(<<"chan">>, InT), Ty(<<"chan", "ptr">>, OtherT)}
ThirdParams == {Ty(<<"chan", "ptr">>, OutT),
                Ty(<<"chan<-">>, OutT), Ty(<<"<-chan">>, OutT),
                Ty(<<"chan">>, OtherT), Ty(<<>>, OutT)}
FirstResults == {Ty(<<"ptr">>, OutT), Ty(<<>>, OtherT)}
LastResults == {ErrT, Ty(<<>>, OutT)}

ParamLists ==
    {<<>>} \cup {<<a>> : a \in FirstParams}
    \cup {<<a, b>> : a \in FirstParams, b \in SecondParams}
    \cup {<<a, b, c>> : a \in FirstParams, b \in SecondParams, c \in ThirdParams}
ResultLists ==
    {<<>>} \cup {<<e>> : e \in LastResults}
    \cup {<<r, e>> : r \in FirstResults, e \in LastResults}

Methods == {[valid |-> TRUE, in |-> i, out |-> o] : i \in ParamLists, o \in ResultLists}
NoMethod == [valid |-> FALSE, in |-> <<>>, out |-> <<>>]

Descriptors ==
    {[found |-> TRUE, serverStreaming |-> ss, clientStreaming |-> cs,
      input |-> InT, output |-> OutT] : ss \in BOOLEAN, cs \in BOOLEAN}
NoDescriptor ==
    [found |-> FALSE, serverStreaming |-> FALSE, clientStreaming |-> FALSE,
     input |-> InT, output |-> OutT]

\* A call: the schema entry and the Server's method of that name.
Calls ==
    {[md |-> d, method |-> m] : d \in Descriptors, m \in Methods \cup {NoMethod}}
    \cup {[md |-> NoDescriptor, method |-> m] : m \in Methods \cup {NoMethod}}

NoFinal == [hasResp |-> FALSE, resp |-> 0, err |-> "nil"]

\* ------------------------------------------------------- HTTP requests
\* Types that implement proto.Message through their pointer.
ProtoMessages == {InT, OutT, InAlt}

\* Method shapes for Handle: those above, and a response returned by value.
HTTPMethods ==
    Methods \cup
    {[valid |-> TRUE, in |-> i, out |-> <<Ty(<<>>, OutT), e>>] :
        i \in ParamLists, e \in LastResults}

\* r.ContentLength when the request declares no length (chunked transfer).
UnknownLength == -1
\* The length a request with a body declares.
DeclaredLength == 2

\* A request body: the declared length, the bytes io.ReadAll returns, whether
\* they are the JSON of an input message, and the payload they carry.
Body(cl, n, ok, v) == [contentLength |-> cl, read |-> n, json |-> ok, v |-> v]
Bodies ==
    {Body(0, 0, FALSE, 0),
     Body(UnknownLength, DeclaredLength, TRUE, 1),
     Body(DeclaredLength, DeclaredLength, TRUE, 1),
     Body(DeclaredLength, DeclaredLength - 1, FALSE, 0),
     Body(DeclaredLength, DeclaredLength, FALSE, 0)}

\* A request: whether the schema has the service of the path, the schema
\* entry s.find returns, the Server's method of that name, and the body.
Requests ==
    {[service |-> TRUE, md |-> d, method |-> m, body |-> b] :
        d \in Descriptors \cup {NoDescriptor}, m \in HTTPMethods \cup {NoMethod},
        b \in Bodies}
    \cup {[service |-> FALSE, md |-> NoDescriptor, method |-> NoMethod, body |-> b] :
            b \in Bodies}
NoRequest ==
    [service |-> FALSE, md |-> NoDescriptor, method |-> NoMethod,
     body |-> Body(0, 0, FALSE, 0)]

\* No HTTP request is being served.
HTTPIdle ==
    /\ httpReq = NoRequest
    /\ httpPc = "idle"
    /\ httpMsg = 0
    /\ httpArgs = <<>>
    /\ httpRet = <<>>
    /\ httpLog = <<>>
    /\ httpResp = <<>>

\* Session s1 is a call about to be dispatched; the other connections are idle.
Init ==
    /\ \E c \in Calls :
        /\ md = [s \in Sessions |-> IF s = "s1" THEN c.md ELSE NoDescriptor]
        /\ method = [s \in Sessions |-> IF s = "s1" THEN c.method ELSE NoMethod]
    /\ disp = [s \in Sessions |-> IF s = "s1" THEN "start" ELSE "idle"]
    /\ final = [s \in Sessions |-> NoFinal]
    /\ ctxDone = [s \in Sessions |-> FALSE]
    /\ reader = [s \in Sessions |-> "none"]
    /\ rmsg = [s \in Sessions |-> 0]
    /\ readCh = [s \in Sessions |-> <<>>]
    /\ readClosed = [s \in Sessions |-> FALSE]
    /\ inClosed = [s \in Sessions |-> FALSE]
    /\ rlog = [s \in Sessions |-> <<>>]
    /\ peerLeft = [s \in Sessions |-> MaxFrames]
    /\ writer = [s \in Sessions |-> "none"]
    /\ wval = [s \in Sessions |-> 0]
    /\ outClosed = [s \in Sessions |-> FALSE]
    /\ wbroken = [s \in Sessions |-> FALSE]
    /\ impl = [s \in Sessions |-> "none"]
    /\ implRet = [s \in Sessions |-> [resp |-> 0, err |-> "nil", eos |-> FALSE]]
    /\ doneCh = [s \in Sessions |-> <<>>]
    /\ sent = [s \in Sessions |-> <<>>]
    /\ received = [s \in Sessions |-> <<>>]
    /\ itemsLeft = [s \in Sessions |-> MaxItems]
    /\ wire = [s \in Sessions |-> <<>>]
    /\ closeLog = [s \in Sessions |-> <<>>]
    /\ HTTPIdle

Next ==
    \E s \in Sessions :
        \/ WSReject(s)
        \/ BidiStart(s) \/ BidiSelectDone(s) \/ BidiSelectRead(s) \/ BidiFinish(s)
        \/ ServerStart(s) \/ ServerReadInitial(s) \/ ServerAwaitDone(s) \/ ServerFinish(s)
        \/ ClientStart(s) \/ ClientSelectDone(s) \/ ClientSelectRead(s) \/ ClientFinish(s)
        \/ Cancel(s)
        \/ ReaderCheck(s) \/ ReaderRead(s) \/ ReaderCheckPush(s) \/ ReaderSend(s)
        \/ ReaderCloseIn(s) \/ ReaderCloseRead(s)
        \/ WriterRecv(s) \/ WriterRecvClosed(s) \/ WriterWrite(s)
        \/ ImplReturn(s) \/ ImplCancelled(s) \/ ImplReport(s)
        \/ ImplCloseOut(s)

Spec == Init /\ [][Next]_vars

\* The handlers derive the call-scoped context from r.Context() (lines 155-159,
\* 360, 430, 474): when the caller of HandleWebsocket imposed a deadline or
\* cancels the request, the call-scoped context is cancelled while the session
\* is still running.
ParentCancel(s) ==
    /\ disp[s] \notin {"idle", "start", "returned", "panicked"}
    /\ ~ctxDone[s]
    /\ ctxDone' = [ctxDone EXCEPT ![s] = TRUE]
    /\ UNCHANGED <<disp, final>>
    /\ UnchangedConfig /\ UnchangedConn /\ UnchangedReader /\ UnchangedWriter
    /\ UnchangedImpl

DeadlineNext == Next \/ \E s \in Sessions : ParentCancel(s)

\* Sessions whose request context may be cancelled by the caller.
DeadlineSpec == Init /\ [][DeadlineNext]_vars

\* ------------------------------------------------------- brief sessions
\* Data frames the peer may send, and items the implementation may send, in a
\* brief session.
BriefFrames == 1
BriefItems == 1

\* Session s1 is a call about to be dispatched whose peer and implementation
\* send little; the other connections are idle.
BriefInit ==
    /\ \E c \in Calls :
        /\ md = [s \in Sessions |-> IF s = "s1" THEN c.md ELSE NoDescriptor]
        /\ method = [s \in Sessions |-> IF s = "s1" THEN c.method ELSE NoMethod]
    /\ disp = [s \in Sessions |-> IF s = "s1" THEN "start" ELSE "idle"]
    /\ final = [s \in Sessions |-> NoFinal]
    /\ ctxDone = [s \in Sessions |-> FALSE]
    /\ reader = [s \in Sessions |-> "none"]
    /\ rmsg = [s \in Sessions |-> 0]
    /\ readCh = [s \in Sessions |-> <<>>]
    /\ readClosed = [s \in Sessions |-> FALSE]
    /\ inClosed = [s \in Sessions |-> FALSE]
    /\ rlog = [s \in Sessions |-> <<>>]
    /\ peerLeft = [s \in Sessions |-> BriefFrames]
    /\ writer = [s \in Sessions |-> "none"]
    /\ wval = [s \in Sessions |-> 0]
    /\ outClosed = [s \in Sessions |-> FALSE]
    /\ wbroken = [s \in Sessions |-> FALSE]
    /\ impl = [s \in Sessions |-> "none"]
    /\ implRet = [s \in Sessions |-> [resp |-> 0, err |-> "nil", eos |-> FALSE]]
    /\ doneCh = [s \in Sessions |-> <<>>]
    /\ sent = [s \in Sessions |-> <<>>]
    /\ received = [s \in Sessions |-> <<>>]
    /\ itemsLeft = [s \in Sessions |-> BriefItems]
    /\ wire = [s \in Sessions |-> <<>>]
    /\ closeLog = [s \in Sessions |-> <<>>]
    /\ HTTPIdle

BriefSpec == BriefInit /\ [][Next]_vars

\* ------------------------------------------- concurrent bidirectional sessions
\* The bidirectional method of the doc comment of HandleWebsocket (line 122)
\* and its schema entry.
BidiMethod ==
    [valid |-> TRUE,
     in |-> <<CtxT, Ty(<<"chan", "ptr">>, InT), Ty(<<"chan", "ptr">>, OutT)>>,
     out |-> <<ErrT>>]
BidiDescriptor ==
    [found |-> TRUE, serverStreaming |-> TRUE, clientStreaming |-> TRUE,
     input |-> InT, output |-> OutT]

\* What the two sessions' peers and implementations may do: one session with
\* traffic in one direction next to a session whose peer and implementation
\* send nothing.
MultiBudgets ==
    {[frames |-> [s \in Sessions |-> IF s = "s1" THEN f ELSE 0],
      items |-> [s \in Sessions |-> IF s = "s1" THEN i ELSE 0]] :
        <<f, i>> \in {<<1, 0>>, <<0, 1>>}}

\* HandleWebsocket is entered for every session at once, each on its own
\* connection, each for the bidirectional method.
MultiInit ==
    /\ md = [s \in Sessions |-> BidiDescriptor]
    /\ method = [s \in Sessions |-> BidiMethod]
    /\ disp = [s \in Sessions |-> "start"]
    /\ final = [s \in Sessions |-> NoFinal]
    /\ ctxDone = [s \in Sessions |-> FALSE]
    /\ reader = [s \in Sessions |-> "none"]
    /\ rmsg = [s \in Sessions |-> 0]
    /\ readCh = [s \in Sessions |-> <<>>]
    /\ readClosed = [s \in Sessions |-> FALSE]
    /\ inClosed = [s \in Sessions |-> FALSE]
    /\ rlog = [s \in Sessions |-> <<>>]
    /\ \E b \in MultiBudgets : peerLeft = b.frames /\ itemsLeft = b.items
    /\ writer = [s \in Sessions |-> "none"]
    /\ wval = [s \in Sessions |-> 0]
    /\ outClosed = [s \in Sessions |-> FALSE]
    /\ wbroken = [s \in Sessions |-> FALSE]
    /\ impl = [s \in Sessions |-> "none"]
    /\ implRet = [s \in Sessions |-> [resp |-> 0, err |-> "nil", eos |-> FALSE]]
    /\ doneCh = [s \in Sessions |-> <<>>]
    /\ sent = [s \in Sessions |-> <<>>]
    /\ received = [s \in Sessions |-> <<>>]
    /\ wire = [s \in Sessions |-> <<>>]
    /\ closeLog = [s \in Sessions |-> <<>>]
    /\ HTTPIdle

\* The steps of bidirectional sessions.
MultiNext ==
    \E s \in Sessions :
        \/ BidiStart(s) \/ BidiSelectDone(s) \/ BidiSelectRead(s) \/ BidiFinish(s)
        \/ Cancel(s)
        \/ ReaderCheck(s) \/ ReaderRead(s) \/ ReaderCheckPush(s) \/ ReaderSend(s)
        \/ ReaderCloseIn(s) \/ ReaderCloseRead(s)
        \/ WriterRecv(s) \/ WriterRecvClosed(s) \/ WriterWrite(s)
        \/ ImplReturn(s) \/ ImplCancelled(s) \/ ImplReport(s) \/ ImplCloseOut(s)

MultiSpec == MultiInit /\ [][MultiNext]_vars

\* ------------------------------------------------------- execution contexts
\* The keys of lines 25-32.
ContextKeyResponseWriter == "response"
ContextKeyRequest == "request"
ContextKeyWebSocketConn == "websocket"
ContextKeys == {ContextKeyResponseWriter, ContextKeyRequest, ContextKeyWebSocketConn}

\* Context values are typed handles of a call; NoValue is the nil a context
\* yields for a key it does not hold.
NoValue == [type |-> "nil", of |-> "nil"]
ResponseWriterOf(s) == [type |-> "http.ResponseWriter", of |-> s]
RequestOf(s) == [type |-> "*http.Request", of |-> s]
ConnOf(s) == [type |-> "*websocket.Conn", of |-> s]

\* context.WithValue
WithValue(ctx, key, val) == [ctx EXCEPT ![key] = val]

\* WithHTTPContext that attaches the response writer only.
WithHTTPContextWriterOnly(ctx, w, r) == WithValue(ctx, ContextKeyResponseWriter, w)

\* Lines 178-182.
WithHTTPContext(ctx, w, r) ==
    WithValue(WithValue(ctx, ContextKeyResponseWriter, w), ContextKeyRequest, r)

\* Lines 193-195.
WithWebSocketContext(ctx, conn) == WithValue(ctx, ContextKeyWebSocketConn, conn)

\* Lines 207-210, 223-226, 239-242: the value under the key and whether it has
\* the asserted type.
GetResponseWriter(ctx) ==
    [value |-> IF ctx[ContextKeyResponseWriter].type = "http.ResponseWriter"
               THEN ctx[ContextKeyResponseWriter] ELSE NoValue,
     ok |-> ctx[ContextKeyResponseWriter].type = "http.ResponseWriter"]
GetRequest(ctx) ==
    [value |-> IF ctx[ContextKeyRequest].type = "*http.Request"
               THEN ctx[ContextKeyRequest] ELSE NoValue,
     ok |-> ctx[ContextKeyRequest].type = "*http.Request"]
GetWebSocketConn(ctx) ==
    [value |-> IF ctx[ContextKeyWebSocketConn].type = "*websocket.Conn"
               THEN ctx[ContextKeyWebSocketConn] ELSE NoValue,
     ok |-> ctx[ContextKeyWebSocketConn].type = "*websocket.Conn"]

\* r.Context() as the HTTP server hands it over: none of this package's keys.
RequestContext(s) == [k \in ContextKeys |-> NoValue]

\* The context HandleWebsocket hands to its handlers (lines 155, 157, 159) and
\* these, through context.WithCancel (360, 430, 474), which keeps the values,
\* to the implementation (368, 444, 484).
StreamContext(s) == RequestContext(s)

\* ----------------------------------------------------------------- Handle
\* The connection the HTTP request arrives on.
HTTPCall == "h1"

streamVars == <<md, method, disp, final, ctxDone, reader, rmsg, readCh, readClosed,
                inClosed, rlog, peerLeft, writer, wval, outClosed, wbroken, impl,
                implRet, doneCh, sent, received, itemsLeft, wire, closeLog>>

\* net/http status codes
StatusOK == 200
StatusBadRequest == 400
StatusNotFound == 404
StatusInternalServerError == 500

\* One response written to the http.ResponseWriter: status, Content-Type, body.
Response(code, ctype, body) == [status |-> code, contentType |-> ctype, body |-> body]

\* http.Error(w, text, code)
httpError(text, code) == Response(code, "text/plain; charset=utf-8", text)

\* s.find (lines 297-308): the error it returns
find(req) ==
    IF ~req.service THEN "service not found"
    ELSE IF ~req.md.found THEN "method not found"
    ELSE "nil"

\* s.message (lines 310-318): a new, empty message of the schema's input type;
\* it returns no error.
message(d) == [type |-> Ty(<<"ptr">>, d.input), v |-> 0]

\* The type implements proto.Message: a pointer to a generated message struct.
IsProtoMessage(t) == t.wrap = <<"ptr">> /\ t.base \in ProtoMessages

\* reflect.Type.AssignableTo between two concrete types
AssignableTo(t, u) == t = u

\* protojson.Marshal of a message with payload v
protojsonMarshal(v) == <<"json", v>>

\* callCheck without the test of the last result's type (lines 257-259).
callCheckAnyLastResult(m, reqType, decodes) ==
    IF ~m.valid THEN "method not found"
    ELSE IF NumIn(m) # 2 \/ NumOut(m) # 2 THEN "invalid method signature"
    ELSE IF ~Implements(In(m, 0), CtxBase) THEN "first argument must be context.Context"
    ELSE IF Kind(In(m, 1)) # "ptr" THEN "request must be a pointer"
    ELSE IF AssignableTo(reqType, In(m, 1)) THEN "nil"
    ELSE IF ~IsProtoMessage(In(m, 1)) THEN "expected proto.Message for request"
    ELSE IF ~decodes THEN ErrDecode
    ELSE "nil"

\* s.call up to m.Call (lines 245-286): the error it returns without calling
\* the method, or "nil".  reqType is the type of Handle's message; decodes says
\* whether its JSON decodes into the type the method wants (lines 274-284).
callCheck(m, reqType, decodes) ==
    IF ~m.valid THEN "method not found"
    ELSE IF NumIn(m) # 2 \/ NumOut(m) # 2 THEN "invalid method signature"
    ELSE IF ~Implements(In(m, 0), CtxBase) THEN "first argument must be context.Context"
    ELSE IF ~Implements(Out(m, 1), ErrBase) THEN "second return value must be error"
    ELSE IF Kind(In(m, 1)) # "ptr" THEN "request must be a pointer"
    ELSE IF AssignableTo(reqType, In(m, 1)) THEN "nil"
    ELSE IF ~IsProtoMessage(In(m, 1)) THEN "expected proto.Message for request"
    ELSE IF ~decodes THEN ErrDecode
    ELSE "nil"

\* marshal without the branch for struct values (lines 336-350).
marshalPointersOnly(res) ==
    IF IsProtoMessage(res.type)
    THEN [out |-> protojsonMarshal(res.v), err |-> "nil"]
    ELSE [out |-> <<>>, err |-> "response is not a proto message"]

\* s.marshal (lines 320-352): the bytes and the error for a returned value
marshal(res) ==
    IF IsProtoMessage(res.type)
    THEN [out |-> protojsonMarshal(res.v), err |-> "nil"]
    ELSE IF Kind(res.type) = "struct" /\ IsProtoMessage(Ty(<<"ptr">>, res.type.base))
    THEN [out |-> protojsonMarshal(res.v), err |-> "nil"]
    ELSE [out |-> <<>>, err |-> "response is not a proto message"]

\* The values a method may return as its first result: of a pointer type the
\* nil pointer (0) or a message, of a struct type a value.
Returnable(t) ==
    {[type |-> t, v |-> v] : v \in (IF Kind(t) = "ptr" THEN {0} ELSE {}) \cup Vals}

\* The context Handle builds at line 65.
HandleContext ==
    WithHTTPContext(RequestContext(HTTPCall), ResponseWriterOf(HTTPCall),
                    RequestOf(HTTPCall))

\* HandleFind that goes on to the body although s.find failed.
HandleFindIgnoresError ==
    /\ httpPc = "start"
    /\ httpLog' = Append(httpLog, "find")
    /\ httpMsg' = message(httpReq.md).v
    /\ httpPc' = "body"
    /\ UNCHANGED <<httpResp, httpReq, httpArgs, httpRet, streamVars>>

\* Lines 65-79: build the context, resolve the path, make the input message.
HandleFind ==
    /\ httpPc = "start"
    /\ httpLog' = Append(httpLog, "find")
    /\ IF find(httpReq) # "nil"
       THEN /\ httpResp' = Append(httpResp, httpError(find(httpReq), StatusNotFound))
            /\ httpPc' = "returned"
            /\ UNCHANGED httpMsg
       ELSE /\ httpMsg' = message(httpReq.md).v
            /\ httpPc' = "body"
            /\ UNCHANGED httpResp
    /\ UNCHANGED <<httpReq, httpArgs, httpRet, streamVars>>

\* HandleBody with the `return` after the length check's response missing.
HandleBodyNoReturn ==
    /\ httpPc = "body"
    /\ LET b == httpReq.body
       IN  IF b.contentLength > 0
           THEN IF b.read # b.contentLength
                THEN /\ httpLog' = Append(httpLog, "read")
                     /\ httpResp' = Append(httpResp,
                            httpError("body length does not match Content-Length",
                                      StatusBadRequest))
                     /\ httpPc' = "call"
                     /\ UNCHANGED httpMsg
                ELSE IF ~b.json
                THEN /\ httpLog' = httpLog \o <<"read", "decode">>
                     /\ httpResp' = Append(httpResp, httpError(ErrDecode, StatusBadRequest))
                     /\ httpPc' = "returned"
                     /\ UNCHANGED httpMsg
                ELSE /\ httpLog' = httpLog \o <<"read", "decode">>
                     /\ httpMsg' = b.v
                     /\ httpPc' = "call"
                     /\ UNCHANGED httpResp
           ELSE /\ httpPc' = "call"
                /\ UNCHANGED <<httpLog, httpMsg, httpResp>>
    /\ UNCHANGED <<httpReq, httpArgs, httpRet, streamVars>>

\* HandleBody that ignores the error of protojson.Unmarshal (lines 88-91): a
\* malformed body goes on to the call.
HandleBodyIgnoresDecodeError ==
    /\ httpPc = "body"
    /\ LET b == httpReq.body
       IN  IF b.contentLength > 0
           THEN IF b.read # b.contentLength
                THEN /\ httpLog' = Append(httpLog, "read")
                     /\ httpResp' = Append(httpResp,
                            httpError("body length does not match Content-Length",
                                      StatusBadRequest))
                     /\ httpPc' = "returned"
                     /\ UNCHANGED httpMsg
                ELSE /\ httpLog' = httpLog \o <<"read", "decode">>
                     /\ httpMsg' = IF b.json THEN b.v ELSE httpMsg
                     /\ httpPc' = "call"
                     /\ UNCHANGED httpResp
           ELSE /\ httpPc' = "call"
                /\ UNCHANGED <<httpLog, httpMsg, httpResp>>
    /\ UNCHANGED <<httpReq, httpArgs, httpRet, streamVars>>

\* Lines 81-92: a request that declares a length has its body read and decoded
\* into the input message.
HandleBody ==
    /\ httpPc = "body"
    /\ LET b == httpReq.body
       IN  IF b.contentLength > 0
           THEN IF b.read # b.contentLength
                THEN /\ httpLog' = Append(httpLog, "read")
                     /\ httpResp' = Append(httpResp,
                            httpError("body length does not match Content-Length",
                                      StatusBadRequest))
                     /\ httpPc' = "returned"
                     /\ UNCHANGED httpMsg
                ELSE IF ~b.json
                THEN /\ httpLog' = httpLog \o <<"read", "decode">>
                     /\ httpResp' = Append(httpResp, httpError(ErrDecode, StatusBadRequest))
                     /\ httpPc' = "returned"
                     /\ UNCHANGED httpMsg
                ELSE /\ httpLog' = httpLog \o <<"read", "decode">>
                     /\ httpMsg' = b.v
                     /\ httpPc' = "call"
                     /\ UNCHANGED httpResp
           ELSE /\ httpPc' = "call"
                /\ UNCHANGED <<httpLog, httpMsg, httpResp>>
    /\ UNCHANGED <<httpReq, httpArgs, httpRet, streamVars>>

\* The type of reflect.ValueOf(ctx): a concrete context, passable to a
\* parameter of an interface type it implements.
CtxValueT == [path |-> "context", pkg |-> "context", name |-> "valueCtx", kind |-> "struct"]

\* reflect.Value.Call panics unless there is one argument per parameter, each
\* assignable to its parameter's type.
CallPanics(m, argTypes) ==
    \/ NumIn(m) # Len(argTypes)
    \/ \E i \in 1..Len(argTypes) :
          /\ ~AssignableTo(argTypes[i], m.in[i])
          /\ ~(argTypes[i] = Ty(<<"ptr">>, CtxValueT) /\ Implements(m.in[i], CtxBase))

\* Lines 266-286 of call: the type of reqVal, the request itself or the new
\* value of the wanted type the request was converted into.
reqValType(reqType, wanted) ==
    IF AssignableTo(reqType, wanted) THEN reqType ELSE Ty(<<"ptr">>, Elem(wanted).base)

\* Lines 95-99 with call's lines 245-288: look the method up, check its shape,
\* convert the request and call the method; on an error respond 500 and,
\* returning, close the body (line 93).
HandleCall ==
    /\ httpPc = "call"
    /\ \E decodes \in BOOLEAN :
        LET m == httpReq.method
            e == callCheck(m, message(httpReq.md).type, decodes)
            t == reqValType(message(httpReq.md).type, In(m, 1))
        IN  IF e # "nil"
            THEN /\ httpResp' = Append(httpResp, httpError(e, StatusInternalServerError))
                 /\ httpLog' = Append(httpLog, "close")
                 /\ httpPc' = "returned"
                 /\ UNCHANGED httpArgs
            ELSE IF CallPanics(m, <<Ty(<<"ptr">>, CtxValueT), t>>)
            THEN /\ httpPc' = "panicked"
                 /\ UNCHANGED <<httpArgs, httpLog, httpResp>>
            ELSE /\ httpArgs' = <<HandleContext, [type |-> t, v |-> httpMsg]>>
                 /\ httpLog' = Append(httpLog, "invoke")
                 /\ httpPc' = "invoke"
                 /\ UNCHANGED httpResp
    /\ UNCHANGED <<httpReq, httpMsg, httpRet, streamVars>>

\* HandleInvoke that goes on to encode the returned value whatever the error.
HandleInvokeIgnoresError ==
    /\ httpPc = "invoke"
    /\ \E res \in Returnable(Out(httpReq.method, 0)), e \in ImplErrors :
        httpRet' = <<res, e>>
    /\ httpPc' = "marshal"
    /\ UNCHANGED <<httpResp, httpLog, httpReq, httpMsg, httpArgs, streamVars>>

\* call's lines 288-294 and Handle's 96-99: the implementation returns; its
\* error becomes a 500 response.
HandleInvoke ==
    /\ httpPc = "invoke"
    /\ \E res \in Returnable(Out(httpReq.method, 0)), e \in ImplErrors :
        /\ httpRet' = <<res, e>>
        /\ IF e # "nil"
           THEN /\ httpResp' = Append(httpResp, httpError(e, StatusInternalServerError))
                /\ httpLog' = Append(httpLog, "close")
                /\ httpPc' = "returned"
           ELSE /\ httpPc' = "marshal"
                /\ UNCHANGED <<httpResp, httpLog>>
    /\ UNCHANGED <<httpReq, httpMsg, httpArgs, streamVars>>

\* Lines 101-112: encode the returned value and write it with status 200, or
\* respond 500 when it cannot be encoded; returning, close the body (line 93).
HandleMarshal ==
    /\ httpPc = "marshal"
    /\ httpResp' = Append(httpResp,
           IF marshal(httpRet[1]).err # "nil"
           THEN httpError(marshal(httpRet[1]).err, StatusInternalServerError)
           ELSE Response(StatusOK, "application/json", marshal(httpRet[1]).out))
    /\ httpLog' = httpLog \o <<"marshal", "close">>
    /\ httpPc' = "returned"
    /\ UNCHANGED <<httpReq, httpMsg, httpArgs, httpRet, streamVars>>

\* No WebSocket session is being served.
StreamIdle ==
    /\ md = [s \in Sessions |-> NoDescriptor]
    /\ method = [s \in Sessions |-> NoMethod]
    /\ disp = [s \in Sessions |-> "idle"]
    /\ final = [s \in Sessions |-> NoFinal]
    /\ ctxDone = [s \in Sessions |-> FALSE]
    /\ reader = [s \in Sessions |-> "none"]
    /\ rmsg = [s \in Sessions |-> 0]
    /\ readCh = [s \in Sessions |-> <<>>]
    /\ readClosed = [s \in Sessions |-> FALSE]
    /\ inClosed = [s \in Sessions |-> FALSE]
    /\ rlog = [s \in Sessions |-> <<>>]
    /\ peerLeft = [s \in Sessions |-> 0]
    /\ writer = [s \in Sessions |-> "none"]
    /\ wval = [s \in Sessions |-> 0]
    /\ outClosed = [s \in Sessions |-> FALSE]
    /\ wbroken = [s \in Sessions |-> FALSE]
    /\ impl = [s \in Sessions |-> "none"]
    /\ implRet = [s \in Sessions |-> [resp |-> 0, err |-> "nil", eos |-> FALSE]]
    /\ doneCh = [s \in Sessions |-> <<>>]
    /\ sent = [s \in Sessions |-> <<>>]
    /\ received = [s \in Sessions |-> <<>>]
    /\ itemsLeft = [s \in Sessions |-> 0]
    /\ wire = [s \in Sessions |-> <<>>]
    /\ closeLog = [s \in Sessions |-> <<>>]

\* Handle is entered for one request.
HandleInit ==
    /\ StreamIdle
    /\ httpReq \in Requests
    /\ httpPc = "start"
    /\ httpMsg = 0
    /\ httpArgs = <<>>
    /\ httpRet = <<>>
    /\ httpLog = <<>>
    /\ httpResp = <<>>

HandleNext ==
    HandleFind \/ HandleBody \/ HandleCall \/ HandleInvoke \/ HandleMarshal

HandleSpec == HandleInit /\ [][HandleNext]_vars

\* ------------------------------------------------------- either dispatcher
\* One call arrives at the Service, at Handle as an HTTP request or at
\* HandleWebsocket as a session with little traffic.
DispatchInit == HandleInit \/ BriefInit

DispatchSpec == DispatchInit /\ [][HandleNext \/ Next]_vars

\* ------------------------------------------------------------ properties
PumpStopped(p) == p \in {"none", "exited"}
Invoked(s) == impl[s] # "none"
Closes(s) == closeLog'[s] # closeLog[s]

\* C1: the dispatch layer closes a session's connection at most once in every
\* reachable state, and every HandleWebsocket call that has returned has run
\* closeWS exactly once.
C1_ClosedExactlyOnce ==
    \A s \in Sessions :
        /\ Len(closeLog[s]) <= 1
        /\ disp[s] = "returned" => Len(closeLog[s]) = 1

\* A bidirectional session that ran its implementation, ended with an error
\* close and returned.
C1_Witness ==
    /\ Routed("s1", StreamingTypeBidirectional)
    /\ disp["s1"] = "returned"
    /\ Invoked("s1")
    /\ Len(closeLog["s1"]) = 1
    /\ closeLog["s1"][1].code = CloseInternalServerErr

IsMessage(t, msg) == t.wrap = <<>> /\ (t.base = msg \/ t.base.name = msg.name)
IsPointerTo(t, msg) == t.wrap # <<>> /\ Head(t.wrap) = "ptr" /\ IsMessage(Elem(t), msg)
IsValueOf(t, msg) == IsMessage(t, msg) \/ IsPointerTo(t, msg)
IsInboundQueue(t, msg) ==
    t.wrap # <<>> /\ Head(t.wrap) \in {"chan", "<-chan"} /\ IsPointerTo(Elem(t), msg)
IsOutboundQueue(t, msg) ==
    t.wrap # <<>> /\ Head(t.wrap) \in {"chan", "chan<-"} /\ IsValueOf(Elem(t), msg)

\* A queue parameter whose direction is the wrong one for its role.
WrongDirection(mt) ==
    \/ Len(mt.in) >= 2 /\ mt.in[2].wrap # <<>> /\ Head(mt.in[2].wrap) = "chan<-"
    \/ Len(mt.in) >= 3 /\ mt.in[3].wrap # <<>> /\ Head(mt.in[3].wrap) = "<-chan"

ShapeOfBidirectional(mt, d) ==
    /\ Len(mt.in) = 3 /\ mt.in[1] = CtxT
    /\ IsInboundQueue(mt.in[2], d.input) /\ IsOutboundQueue(mt.in[3], d.output)
    /\ mt.out = <<ErrT>>
ShapeOfServerStream(mt, d) ==
    /\ Len(mt.in) = 3 /\ mt.in[1] = CtxT
    /\ IsPointerTo(mt.in[2], d.input) /\ IsOutboundQueue(mt.in[3], d.output)
    /\ mt.out = <<ErrT>>
ShapeOfClientStream(mt, d) ==
    /\ Len(mt.in) = 2 /\ mt.in[1] = CtxT /\ IsInboundQueue(mt.in[2], d.input)
    /\ Len(mt.out) = 2 /\ IsValueOf(mt.out[1], d.output) /\ mt.out[2] = ErrT
ShapeOfUnary(mt, d) ==
    /\ Len(mt.in) = 2 /\ mt.in[1] = CtxT /\ IsPointerTo(mt.in[2], d.input)
    /\ Len(mt.out) = 2 /\ IsValueOf(mt.out[1], d.output) /\ mt.out[2] = ErrT

\* The kind the flags alone dictate, and whether the shape is the one it requires.
KindOfFlags(d) ==
    CASE d.serverStreaming /\ d.clientStreaming -> StreamingTypeBidirectional
      [] d.serverStreaming /\ ~d.clientStreaming -> StreamingTypeServerStream
      [] ~d.serverStreaming /\ d.clientStreaming -> StreamingTypeClientStream
      [] OTHER -> StreamingTypeUnary
ShapeMatchesFlags(mt, d) ==
    CASE d.serverStreaming /\ d.clientStreaming -> ShapeOfBidirectional(mt, d)
      [] d.serverStreaming /\ ~d.clientStreaming -> ShapeOfServerStream(mt, d)
      [] ~d.serverStreaming /\ d.clientStreaming -> ShapeOfClientStream(mt, d)
      [] OTHER -> ShapeOfUnary(mt, d)
ExpectedKind(mt, d) ==
    IF ShapeMatchesFlags(mt, d) THEN KindOfFlags(d) ELSE StreamingTypeInvalid

HasCall(s) == disp[s] # "idle" /\ md[s].found /\ method[s].valid

RejectedAsInvalid(s) ==
    /\ Classify(s).type = StreamingTypeInvalid
    /\ Len(closeLog[s]) = 1
    /\ closeLog[s][1].code = CloseInternalServerErr
    /\ closeLog[s][1].reason.msg = "invalid method signature: "
    /\ reader[s] = "none" /\ writer[s] = "none" /\ ~Invoked(s)

\* C3: once HandleWebsocket has acted on a call whose implementation shape does
\* not match the convention its schema flags dictate, the call was classified
\* Invalid, the session is closed with 1011 and a reason starting with
\* "invalid method signature", no pump was started and the implementation was
\* never invoked.
C3_MismatchIsRejected ==
    \A s \in Sessions :
        (HasCall(s) /\ ~ShapeMatchesFlags(method[s], md[s]) /\ disp[s] # "start")
            => RejectedAsInvalid(s)

\* C3 for the calls the validator does classify Invalid (supporting property).
C3_InvalidIsRejected ==
    \A s \in Sessions :
        (HasCall(s) /\ Classify(s).type = StreamingTypeInvalid /\ disp[s] # "start")
            => RejectedAsInvalid(s)

\* C4: validateMethodSignature returns the kind the flags dictate exactly when
\* the shape is the one that kind requires, and Invalid in every other case.
C4_KindIffShape ==
    \A s \in Sessions :
        HasCall(s) => Classify(s).type = ExpectedKind(method[s], md[s])

\* C4 for the methods without a wrong-direction queue (supporting property).
C4_KindIffShapeRightDirection ==
    \A s \in Sessions :
        (HasCall(s) /\ ~WrongDirection(method[s]))
            => Classify(s).type = ExpectedKind(method[s], md[s])

\* The payloads of the data frames the Writer pump has put on the wire, in order.
IsWriterFrame(f) == f.t = "data" /\ f.by = "writer"
PayloadsOf(w) == [i \in 1..Len(w) |-> w[i].v]
WriterFrames(s) == PayloadsOf(SelectSeq(wire[s], IsWriterFrame))
IsPrefix(a, b) == Len(a) <= Len(b) /\ \A i \in 1..Len(a) : a[i] = b[i]

\* C5: in a bidirectional or server streaming session whose implementation was
\* invoked, at the step that closes the session the Writer pump has exited; and
\* when no transport write has failed, the outbound queue is closed and every
\* item the implementation sent is already on the wire as a data frame, so the
\* close frame, if written, comes after all of them.
C5_CloseAfterDrain ==
    [][\A s \in Sessions :
          (Closes(s) /\ Invoked(s) /\ HasOut(s)) =>
              /\ writer[s] = "exited"
              /\ ~wbroken[s] =>
                    /\ outClosed[s]
                    /\ WriterFrames(s) = sent[s]
                    /\ wire'[s] \in {wire[s],
                                     Append(wire[s], CloseFrame(closeLog'[s][1].code,
                                                                closeLog'[s][1].reason))}]_vars

\* A bidirectional session woken by a Reader-pump error after the implementation
\* sent two items: both are on the wire before the close frame.
C5_Witness ==
    /\ Routed("s1", StreamingTypeBidirectional)
    /\ Len(closeLog["s1"]) = 1
    /\ closeLog["s1"][1].reason.err = ErrAbnormal
    /\ Len(sent["s1"]) = 2
    /\ Len(wire["s1"]) = 3
    /\ wire["s1"][3].t = "close"

\* C6: the data frames the Writer pump has written are a prefix of the items the
\* implementation has sent on the outbound queue, in the same order.
C6_FramesPrefixOfSent ==
    \A s \in Sessions : IsPrefix(WriterFrames(s), sent[s])

\* Two different items sent and both written, in order.
C6_Witness ==
    /\ sent["s1"] = <<2, 1>>
    /\ WriterFrames("s1") = <<2, 1>>

\* The read outcomes of session s so far are text frames only, apart from reads
\* that failed because the connection was already closed locally.
IsPeerEvent(ev) == ev.t # "closed"
PeerEvents(s) == SelectSeq(rlog[s], IsPeerEvent)
PeerSentOnlyText(s) == \A i \in 1..Len(PeerEvents(s)) : PeerEvents(s)[i].t = "text"

\* C7: a bidirectional session whose peer sent k text frames and stayed
\* connected, whose implementation received them, sent k items and returned nil,
\* and whose handler has closed the session, shows on the wire exactly those k
\* data frames in order followed by one close frame with code 1000 (no transport
\* write having failed).
C7_EchoThenNormalClose ==
    \A s \in Sessions :
        ( /\ disp[s] \in {"cancel", "returned"}
          /\ Routed(s, StreamingTypeBidirectional)
          /\ PeerSentOnlyText(s)
          /\ received[s] = PayloadsOf(PeerEvents(s))
          /\ Len(sent[s]) = Len(received[s])
          /\ impl[s] \in {"report", "closeOut", "exited"}
          /\ implRet[s].err = "nil"
          /\ ~wbroken[s] )
        => /\ Len(wire[s]) = Len(sent[s]) + 1
           /\ \A i \in 1..Len(sent[s]) : wire[s][i] = DataFrame("writer", sent[s][i])
           /\ wire[s][Len(wire[s])] = CloseFrame(CloseNormalClosure, Reason("", ""))
           /\ Len(closeLog[s]) = 1

\* Two frames in, two items out, nil returned, handler returned.
C7_Witness ==
    /\ Routed("s1", StreamingTypeBidirectional)
    /\ disp["s1"] = "returned"
    /\ PeerSentOnlyText("s1")
    /\ received["s1"] = PayloadsOf(PeerEvents("s1"))
    /\ Len(received["s1"]) = 2
    /\ Len(sent["s1"]) = 2
    /\ impl["s1"] = "exited"
    /\ implRet["s1"].err = "nil"
    /\ ~wbroken["s1"]
    /\ Len(wire["s1"]) = 3

\* The implementation has returned and its result is on `done` (or was taken).
Reported(s) == impl[s] \in {"closeOut", "exited"}

\* No read of session s has failed other than by the peer's normal closure or
\* by the local close.
NoReadError(s) ==
    \A i \in 1..Len(PeerEvents(s)) : PeerEvents(s)[i].t \in {"text", "close1000"}

\* C8: in a client streaming session, when the session is closed after the
\* implementation has returned (response, nil) with a non-nil response at
\* end-of-stream (the inbound queue was closed when it returned) and reported
\* it, and no read or transport write fails, exactly one data frame carrying
\* that response is on the wire, before the close frame.
C8_ResponseWrittenBeforeClose ==
    [][\A s \in Sessions :
          ( /\ Closes(s)
            /\ Routed(s, StreamingTypeClientStream)
            /\ Reported(s)
            /\ implRet[s].err = "nil"
            /\ implRet[s].resp \in Vals
            /\ implRet[s].eos
            /\ NoReadError(s)
            /\ ~wbroken'[s] )
          => wire'[s] = <<DataFrame("dispatcher", implRet[s].resp),
                          CloseFrame(CloseNormalClosure, Reason("", ""))>>]_vars

\* C9: in every duplex convention, when the session is closed after the
\* implementation has returned and reported an error that is not a normal
\* closure, and no read has failed, the close carries code 1011 and the
\* error's text.
C9_ImplErrorClosesWith1011 ==
    [][\A s \in Sessions :
          ( /\ Closes(s)
            /\ Invoked(s)
            /\ Reported(s)
            /\ implRet[s].err \notin {"nil", ErrNormalClose}
            /\ NoReadError(s) )
          => closeLog'[s] = <<[code |-> CloseInternalServerErr,
                               reason |-> Reason("", implRet[s].err)]>>]_vars

\* ------------------------------------------------------------ fairness
\* The goroutines are scheduled fairly: a step that does not wait for the peer
\* or for the implementation's own decision is eventually taken.  A transport
\* read returns for certain only once the connection is closed locally; the
\* implementation returns for certain only once it sees its context cancelled.
DispatcherStep(s) ==
    \/ WSReject(s) \/ BidiStart(s) \/ BidiSelectDone(s) \/ BidiSelectRead(s)
    \/ BidiFinish(s) \/ ServerStart(s) \/ ServerAwaitDone(s) \/ ServerFinish(s)
    \/ ClientStart(s) \/ ClientSelectDone(s) \/ ClientSelectRead(s)
    \/ ClientFinish(s) \/ Cancel(s)
ReaderStep(s) ==
    \/ ReaderCheck(s) \/ ReaderCheckPush(s) \/ ReaderCloseIn(s) \/ ReaderCloseRead(s)
    \/ (closeLog[s] # <<>> /\ ReaderRead(s))
WriterStep(s) == WriterRecvClosed(s) \/ WriterWrite(s)
ImplStep(s) == ImplCancelled(s) \/ ImplReport(s) \/ ImplCloseOut(s)

FairSpec ==
    /\ Init /\ [][Next]_vars
    /\ \A s \in Sessions :
        /\ WF_vars(DispatcherStep(s))
        /\ WF_vars(ReaderStep(s))
        /\ WF_vars(WriterStep(s))
        /\ WF_vars(ImplStep(s))

\* Brief sessions, the goroutines scheduled fairly.
FairBriefSpec ==
    /\ BriefInit /\ [][Next]_vars
    /\ \A s \in Sessions :
        /\ WF_vars(DispatcherStep(s))
        /\ WF_vars(ReaderStep(s))
        /\ WF_vars(WriterStep(s))
        /\ WF_vars(ImplStep(s))

\* The Reader pump of session s has surfaced an error on `read`.
ReaderSurfacedError(s) ==
    /\ reader[s] # "none"
    /\ \E i \in 1..Len(rlog[s]) : readWSMessage(rlog[s][i]) \notin {"nil", ErrNormalClose}

\* C10: once the Reader pump has surfaced an error, the call-scoped context is
\* eventually cancelled.
C10_ReaderErrorLeadsToCancel ==
    \A s \in Sessions : ReaderSurfacedError(s) ~> ctxDone[s]

\* The Reader pump completes a push onto the inbound queue of session s.
Pushes(s) == received'[s] # received[s]

\* C11: no push onto the inbound queue completes once the call-scoped context
\* has been cancelled.
C11_NoPushAfterCancel ==
    [][\A s \in Sessions : Pushes(s) => ~ctxDone[s]]_vars

\* The Reader pump of session s has run its deferred close of the inbound queue.
ReaderClosedIn(s) == reader[s] \in {"closeRead", "exited"}

\* C12: the inbound queue of a session is closed exactly when its Reader pump
\* has run its deferred close: a Reader pump that has exited has closed it, it
\* is open whenever the pump is about to close it (so it is never closed
\* twice), and no other step closes it.
C12_InboundClosedByReaderOnly ==
    \A s \in Sessions : inClosed[s] <=> ReaderClosedIn(s)

\* A Reader pump that exited on cancellation without having read anything: the
\* inbound queue is closed.
C12_Witness ==
    /\ reader["s1"] = "exited"
    /\ inClosed["s1"]
    /\ rlog["s1"] = <<>>
    /\ ctxDone["s1"]

\* The Reader pump of session s puts an error on `read`.
Surfaces(s) == Len(readCh'[s]) > Len(readCh[s])
\* The Reader pump of session s completes a frame read.
ReaderReads(s) == reader[s] = "read" /\ rlog'[s] # rlog[s]
\* The error of the read that session s has just completed.
LastReadError(s) == readWSMessage(rlog'[s][Len(rlog'[s])])
AllText(log) == \A i \in 1..Len(log) : log[i].t = "text"

\* C13: the Reader pump puts an error on `read` exactly in the step in which a
\* read fails with something other than a normal closure, finds a non-text
\* frame or fails to decode (so neither on a normal closure nor on
\* cancellation); it is then the only error it ever surfaces, every earlier
\* read having succeeded; and every push hands over the frame just decoded,
\* all frames read so far having been decoded and pushed in order, so neither
\* a failing frame nor a later one is ever pushed.
C13_SurfacesExactlyReadErrors ==
    [][\A s \in Sessions :
          /\ Surfaces(s) <=>
                (ReaderReads(s) /\ LastReadError(s) \notin {"nil", ErrNormalClose})
          /\ Surfaces(s) =>
                /\ readCh'[s] = <<LastReadError(s)>>
                /\ AllText(rlog[s])
          /\ Pushes(s) =>
                /\ AllText(rlog[s])
                /\ received'[s] = PayloadsOf(rlog[s])]_vars

\* One frame decoded and pushed, then a binary frame: its error is on `read`
\* and nothing more was pushed.
C13_Witness ==
    /\ rlog["s1"] = <<Event("text", 1), Event("binary", 0)>>
    /\ readCh["s1"] = <<ErrNotText>>
    /\ received["s1"] = <<1>>
    /\ reader["s1"] = "exited"

\* The peer of session s has sent a normal closure.
PeerClosedNormally(s) == \E i \in 1..Len(rlog[s]) : rlog[s][i].t = "close1000"

\* C14: in a bidirectional session whose peer has sent a normal closure and
\* whose implementation does not return an error, the step that closes the
\* session closes it with code 1000 and an empty reason, and only after the
\* Writer pump has exited, every item sent being on the wire when no transport
\* write has failed.
C14_PeerClosureIsNotAnError ==
    [][\A s \in Sessions :
          ( /\ Closes(s)
            /\ PeerClosedNormally(s)
            /\ implRet[s].err = "nil"
            /\ Routed(s, StreamingTypeBidirectional) )
          => /\ closeLog'[s] = <<[code |-> CloseNormalClosure, reason |-> Reason("", "")]>>
             /\ writer[s] = "exited"
             /\ ~wbroken[s] => (outClosed[s] /\ WriterFrames(s) = sent[s])]_vars

\* The peer sent one frame and a normal closure, the implementation sent two
\* items and returned nil: both items, then the close frame with code 1000.
C14_Witness ==
    /\ Routed("s1", StreamingTypeBidirectional)
    /\ rlog["s1"] = <<Event("text", 2), Event("close1000", 0)>>
    /\ impl["s1"] = "exited"
    /\ implRet["s1"].err = "nil"
    /\ sent["s1"] = <<1, 2>>
    /\ wire["s1"] = <<DataFrame("writer", 1), DataFrame("writer", 2),
                       CloseFrame(CloseNormalClosure, Reason("", ""))>>

\* The close frame of the closeWS call that session s has just made.
ClosingFrame(s) == CloseFrame(closeLog'[s][1].code, closeLog'[s][1].reason)

\* C15: in every session, whenever the dispatcher closes (its response write, if
\* any, and its close control frame are written in that step) the Writer pump
\* is not in the middle of a write; and every frame reaches the transport
\* either in a step of the Writer pump, as one data frame of the item it holds,
\* or in the dispatcher's closing step, as the close frame, preceded in
\* client streaming only by the single response frame (after which the write
\* of the close frame may fail).
C15_WritesNeverOverlap ==
    [][\A s \in Sessions :
          /\ Closes(s) => writer[s] # "write"
          /\ wire'[s] # wire[s] =>
                \/ /\ ~Closes(s)
                   /\ writer[s] = "write"
                   /\ wire'[s] = Append(wire[s], DataFrame("writer", wval[s]))
                \/ /\ Closes(s)
                   /\ wire'[s] = Append(wire[s], ClosingFrame(s))
                \/ /\ Closes(s)
                   /\ Routed(s, StreamingTypeClientStream)
                   /\ wire[s] = <<>>
                   /\ wire'[s] \in {<<DataFrame("dispatcher", final[s].resp)>>,
                                     <<DataFrame("dispatcher", final[s].resp),
                                       ClosingFrame(s)>>}]_vars

\* A server streaming session rejected after its Writer pump was started: the
\* close frame was written while the pump waits for an item.
C15_Witness ==
    /\ Routed("s1", StreamingTypeServerStream)
    /\ writer["s1"] = "recv"
    /\ Len(closeLog["s1"]) = 1
    /\ closeLog["s1"][1].reason = Reason("request message is of wrong type", "")
    /\ wire["s1"] = <<CloseFrame(CloseInternalServerErr,
                                  Reason("request message is of wrong type", ""))>>

IsTextEvent(ev) == ev.t = "text"
IsDataFrame(f) == f.t = "data"

\* C16: with two bidirectional sessions running at once, in every reachable
\* state and for each session: the data frames on its connection are, in
\* order, items its own implementation sent, written by its own Writer pump;
\* the messages its implementation received are, in order, text frames read
\* from its own connection; its context is cancelled only once its own
\* dispatcher has returned; its inbound queue is closed only by its own Reader
\* pump and its outbound queue only by its own implementation goroutine.
C16_NoCrossSessionLeakage ==
    \A s \in Sessions :
        /\ ctxDone[s] => disp[s] = "returned"
        /\ inClosed[s] => ReaderClosedIn(s)
        /\ outClosed[s] => impl[s] = "exited"
        /\ IsPrefix(received[s], PayloadsOf(SelectSeq(rlog[s], IsTextEvent)))
        /\ SelectSeq(wire[s], IsDataFrame) = SelectSeq(wire[s], IsWriterFrame)
        /\ IsPrefix(WriterFrames(s), sent[s])

\* Session s1 has written its item, was closed and cancelled, while the
\* implementation of session s2 is still running on an untouched connection
\* with its context not cancelled.
C16_Witness ==
    /\ disp["s1"] = "returned"
    /\ ctxDone["s1"]
    /\ sent["s1"] = <<1>>
    /\ wire["s1"] = <<DataFrame("writer", 1),
                       CloseFrame(CloseNormalClosure, Reason("", ""))>>
    /\ impl["s2"] = "running"
    /\ ~ctxDone["s2"]
    /\ wire["s2"] = <<>>
    /\ received["s2"] = <<>>

\* The flags of the schema entry dictate a streaming convention.
IsStreamingCall(s) == HasCall(s) /\ KindOfFlags(md[s]) # StreamingTypeUnary

\* C17: once HandleWebsocket has acted on a streaming call whose implementation
\* has a queue parameter of the wrong direction, the call was classified
\* Invalid and the session is closed with 1011, no queue or pump having been
\* made and the implementation never invoked.
C17_WrongDirectionIsRejected ==
    \A s \in Sessions :
        (IsStreamingCall(s) /\ WrongDirection(method[s]) /\ disp[s] # "start")
            => RejectedAsInvalid(s)

\* C18: the context of every implementation that was invoked in a duplex
\* session yields the session's connection, the upgrade's request and its
\* response writer.
C18_ContextCarriesSession ==
    \A s \in Sessions :
        Invoked(s) =>
            /\ GetWebSocketConn(StreamContext(s)) = [value |-> ConnOf(s), ok |-> TRUE]
            /\ GetRequest(StreamContext(s)) = [value |-> RequestOf(s), ok |-> TRUE]
            /\ GetResponseWriter(StreamContext(s)) =
                   [value |-> ResponseWriterOf(s), ok |-> TRUE]

\* C19: in a server streaming session no Reader pump exists and at most one
\* frame is ever read; the implementation is invoked only after that one read
\* has yielded a decoded text frame; and when the read or the decoding failed
\* the session is closed with 1011 ("failed to read initial message: " and
\* the error) and the implementation is never invoked.
C19_ServerStreamReadsOneFrame ==
    \A s \in Sessions :
        ( /\ disp[s] # "start"
          /\ KindOfFlags(md[s]) = StreamingTypeServerStream
          /\ Routed(s, StreamingTypeServerStream) ) =>
            /\ reader[s] = "none"
            /\ Len(rlog[s]) <= 1
            /\ received[s] = <<>>
            /\ Invoked(s) => (Len(rlog[s]) = 1 /\ readWSMessage(rlog[s][1]) = "nil")
            /\ (Len(rlog[s]) = 1 /\ readWSMessage(rlog[s][1]) # "nil") =>
                  /\ ~Invoked(s)
                  /\ closeLog[s] =
                        <<[code |-> CloseInternalServerErr,
                           reason |-> Reason("failed to read initial message: ",
                                             readWSMessage(rlog[s][1]))]>>

\* A server streaming session that read its one frame, ran the implementation,
\* which sent two items, to the end and returned.
C19_Witness ==
    /\ Routed("s1", StreamingTypeServerStream)
    /\ disp["s1"] = "returned"
    /\ impl["s1"] = "exited"
    /\ rlog["s1"] = <<Event("text", 2)>>
    /\ Len(sent["s1"]) = 2

\* C20: Handle writes at most one response (one status with one body) in every
\* reachable state, and every Handle call that has returned has written exactly
\* one, with status 404, 400, 500 or 200.
C20_OneResponseWrite ==
    /\ Len(httpResp) <= 1
    /\ httpPc = "returned" =>
        /\ Len(httpResp) = 1
        /\ httpResp[1].status \in {StatusNotFound, StatusBadRequest,
                                   StatusInternalServerError, StatusOK}

\* A request with a declared body whose method was invoked and whose result
\* was written with status 200.
C20_Witness ==
    /\ httpPc = "returned"
    /\ httpReq.body.contentLength > 0
    /\ httpArgs # <<>>
    /\ Len(httpResp) = 1
    /\ httpResp[1].status = StatusOK

\* How many times Handle has performed the effect x.
Occurrences(x) == Cardinality({i \in 1..Len(httpLog) : httpLog[i] = x})

\* C21: every Handle call that has returned has read the request body exactly
\* once, and no call reads it more than once.
C21_OneBodyRead ==
    /\ Occurrences("read") <= 1
    /\ httpPc = "returned" => Occurrences("read") = 1

\* The texts of s.find's errors; both contain "not found".
NotFoundTexts == {"service not found", "method not found"}

\* The schema lacks the service or the method of the request's path.
AbsentFromSchema == ~httpReq.service \/ ~httpReq.md.found

\* C22: a request whose service or method is absent from the schema never has
\* the implementation invoked, and once Handle has returned its one response
\* is a 404 whose body is a "not found" text.
C22_AbsentIs404 ==
    AbsentFromSchema =>
        /\ httpArgs = <<>>
        /\ Occurrences("invoke") = 0
        /\ httpPc = "returned" =>
            /\ Len(httpResp) = 1
            /\ httpResp[1].status = StatusNotFound
            /\ httpResp[1].body \in NotFoundTexts

\* Handle returned a "method not found" 404 for a known service whose schema
\* lacks the method, although the Server has a well-formed method of that name.
C22_Witness ==
    /\ httpPc = "returned"
    /\ httpReq.service
    /\ ~httpReq.md.found
    /\ httpReq.method.valid
    /\ httpResp = <<httpError("method not found", StatusNotFound)>>
    /\ httpArgs = <<>>

\* The request carries a body: there are bytes to read.
CarriesBody == httpReq.body.read > 0

\* The body is not the JSON of an input message, or its length differs from
\* the length the request declares.
BadBody ==
    \/ ~httpReq.body.json
    \/ httpReq.body.contentLength >= 0 /\ httpReq.body.read # httpReq.body.contentLength

\* The position of the first effect x in Handle's log, 0 when there is none.
FirstAt(x) ==
    IF Occurrences(x) = 0 THEN 0
    ELSE CHOOSE i \in 1..Len(httpLog) :
            httpLog[i] = x /\ \A j \in 1..(i - 1) : httpLog[j] # x

\* C23: for a request that carries a body, an invoked implementation was given
\* the message decoded from that body, the decoding coming before the
\* invocation; and when the body is bad the implementation is never invoked
\* and the response of a resolved request is a 400.
C23_BodyDecodedBeforeInvoke ==
    CarriesBody =>
        /\ httpArgs # <<>> =>
            /\ httpArgs[2].v = httpReq.body.v
            /\ 0 < FirstAt("decode") /\ FirstAt("decode") < FirstAt("invoke")
        /\ BadBody =>
            /\ httpArgs = <<>>
            /\ (httpPc = "returned" /\ ~AbsentFromSchema) =>
                    /\ Len(httpResp) = 1
                    /\ httpResp[1].status = StatusBadRequest

\* The error the implementation returned to Handle, "nil" also while it has
\* not returned.
ReturnedError == IF httpRet = <<>> THEN "nil" ELSE httpRet[2]

\* C24: once the implementation has returned a non-nil error, Handle has
\* returned, its one response is a 500 with the error's text, and the returned
\* value was not encoded.
C24_ImplErrorIs500 ==
    ReturnedError # "nil" =>
        /\ httpPc = "returned"
        /\ httpResp = <<httpError(ReturnedError, StatusInternalServerError)>>
        /\ Occurrences("marshal") = 0

\* The implementation returned a message together with an error.
C24_Witness ==
    /\ httpPc = "returned"
    /\ ReturnedError = ErrImpl
    /\ httpRet[1].v # 0
    /\ IsProtoMessage(httpRet[1].type)
    /\ httpResp = <<httpError(ErrImpl, StatusInternalServerError)>>

\* The Server's method deviates from the unary contract
\* (context, pointer) -> (value, error) in one of the ways the contract names.
DeviatesFromUnaryShape(m) ==
    /\ m.valid
    /\ \/ Len(m.in) # 2
       \/ Len(m.out) # 2
       \/ m.in[1] # CtxT
       \/ m.out[2] # ErrT
       \/ m.in[2].wrap = <<>> \/ Head(m.in[2].wrap) # "ptr"

\* The request reaches s.call: it resolves and its body, if declared, is good.
ReachesCall ==
    /\ ~AbsentFromSchema
    /\ httpReq.body.contentLength > 0 => ~BadBody

\* C25: when the method of a unary request deviates from the contract, the
\* implementation is never invoked, Handle never panics, and the one response
\* of a request that reached the call is a 500.
C25_DeviationIs500 ==
    DeviatesFromUnaryShape(httpReq.method) =>
        /\ httpArgs = <<>>
        /\ Occurrences("invoke") = 0
        /\ httpPc # "panicked"
        /\ (httpPc = "returned" /\ ReachesCall) =>
                /\ Len(httpResp) = 1
                /\ httpResp[1].status = StatusInternalServerError

\* Handle answered 500 for a method with a context, a pointer to the input
\* message and a value, whose last result is not an error.
C25_Witness ==
    /\ httpPc = "returned"
    /\ ReachesCall
    /\ httpReq.method.valid
    /\ httpReq.method.in = <<CtxT, Ty(<<"ptr">>, InT)>>
    /\ httpReq.method.out = <<Ty(<<"ptr">>, OutT), Ty(<<>>, OutT)>>
    /\ httpResp = <<httpError("second return value must be error", StatusInternalServerError)>>

\* The returned value is a recognised message: a pointer to a generated
\* message, or such a message by value.
RecognisedMessage(res) ==
    \E b \in ProtoMessages : res.type \in {Ty(<<"ptr">>, b), Ty(<<>>, b)}

\* The implementation has returned without an error.
Succeeded == httpRet # <<>> /\ httpRet[2] = "nil"

\* C26: once Handle has returned from an implementation that succeeded, its one
\* response is the 200 with Content-Type application/json and the encoding of
\* the returned value when that value is a recognised message, and a 500 when
\* it is not; and a 200 is written in no other case.
C26_SuccessIs200 ==
    /\ (httpPc = "returned" /\ Succeeded) =>
            IF RecognisedMessage(httpRet[1])
            THEN /\ Len(httpResp) = 1
                 /\ httpResp[1].status = StatusOK
                 /\ httpResp[1].contentType = "application/json"
                 /\ httpResp[1].body = protojsonMarshal(httpRet[1].v)
            ELSE /\ Len(httpResp) = 1
                 /\ httpResp[1].status = StatusInternalServerError
    /\ \A i \in 1..Len(httpResp) :
            httpResp[i].status = StatusOK =>
                /\ Succeeded
                /\ RecognisedMessage(httpRet[1])
                /\ ~AbsentFromSchema
                /\ httpReq.body.contentLength > 0 => ~BadBody

\* Handle answered 200 with the encoding of a message returned by value.
C26_Witness ==
    /\ httpPc = "returned"
    /\ Succeeded
    /\ httpRet[1].type = Ty(<<>>, OutT)
    /\ httpRet[1].v = 1
    /\ Len(httpResp) = 1
    /\ httpResp[1].status = StatusOK
    /\ httpResp[1].body = protojsonMarshal(1)

\* C27: a duplex call whose service or method is absent from the schema starts
\* no pump and never invokes the implementation, and once HandleWebsocket has
\* returned the session was closed once, with code 1011 and the reason
\* "service or method not found".
C27_AbsentClosesWith1011 ==
    \A s \in Sessions :
        (disp[s] # "idle" /\ ~md[s].found) =>
            /\ reader[s] = "none"
            /\ writer[s] = "none"
            /\ impl[s] = "none"
            /\ disp[s] \in {"start", "returned"}
            /\ disp[s] = "returned" =>
                closeLog[s] = <<[code |-> CloseInternalServerErr,
                                 reason |-> Reason("service or method not found", "")]>>

\* The call was rejected although the Server has a well-formed bidirectional
\* method of that name, and the close frame reached the peer.
C27_Witness ==
    /\ disp["s1"] = "returned"
    /\ ~md["s1"].found
    /\ method["s1"] = BidiMethod
    /\ wire["s1"] = <<CloseFrame(CloseInternalServerErr,
                                 Reason("service or method not found", ""))>>

\* What an accessor returns for a handle that is attached / is not.
Found(handle) == [value |-> handle, ok |-> TRUE]
NotFound == [value |-> NoValue, ok |-> FALSE]

\* C28: the context Handle passes to the implementation yields the response
\* writer and the request of that call, each found, and no WebSocket
\* connection; and on a context to which a handle was never attached (the bare
\* request context, or one with only the other transport's handles) the
\* handle's accessor reports not found.
C28_ContextCarriesHandles ==
    /\ httpArgs # <<>> =>
        /\ GetResponseWriter(httpArgs[1]) = Found(ResponseWriterOf(HTTPCall))
        /\ GetRequest(httpArgs[1]) = Found(RequestOf(HTTPCall))
        /\ GetWebSocketConn(httpArgs[1]) = NotFound
    /\ \A s \in Sessions :
        /\ GetResponseWriter(RequestContext(s)) = NotFound
        /\ GetRequest(RequestContext(s)) = NotFound
        /\ GetWebSocketConn(RequestContext(s)) = NotFound
        /\ GetResponseWriter(WithWebSocketContext(RequestContext(s), ConnOf(s))) = NotFound
        /\ GetRequest(WithWebSocketContext(RequestContext(s), ConnOf(s))) = NotFound
        /\ GetWebSocketConn(WithWebSocketContext(RequestContext(s), ConnOf(s)))
                = Found(ConnOf(s))
        /\ GetWebSocketConn(WithHTTPContext(RequestContext(s), ResponseWriterOf(s),
                                            RequestOf(s))) = NotFound

\* The implementation was invoked by Handle and has returned; the context it
\* was given holds the request of the call.
C28_Witness ==
    /\ httpArgs # <<>>
    /\ httpRet # <<>>
    /\ GetRequest(httpArgs[1]).ok
    /\ GetRequest(httpArgs[1]).value = RequestOf(HTTPCall)

WriterFailed(s) ==
    /\ writer[s] = "exited"
    /\ Len(sent[s]) > Len(WriterFrames(s))

\* C30: in a session with an outbound queue, once the Writer pump has exited on
\* a failed write, the dispatcher eventually returns (the implementation
\* returning whenever it sees its context cancelled).
C30_WriteFailureDoesNotHang ==
    \A s \in Sessions : (WriterFailed(s) /\ HasOut(s)) ~> disp[s] = "returned"

\* C31: once the dispatcher has closed the connection of a session with a
\* Reader pump and cancelled its context, the Reader pump eventually exits with
\* the inbound queue closed.
C31_ReaderEventuallyExits ==
    \A s \in Sessions :
        (closeLog[s] # <<>> /\ ctxDone[s] /\ reader[s] # "none")
            ~> (reader[s] = "exited" /\ inClosed[s])

\* C32: in a session whose Writer pump was started, once the implementation has
\* returned, or was never invoked, the outbound queue is eventually closed and
\* the Writer pump eventually exits.
C32_WriterEventuallyExits ==
    \A s \in Sessions :
        (writer[s] # "none" /\ impl[s] # "running")
            ~> (outClosed[s] /\ writer[s] = "exited")

\* The implementation of session s was invoked and has returned.
ImplReturned(s) == impl[s] \in {"report", "closeOut", "exited"}

\* C33: under fair scheduling, once the implementation of a duplex session has
\* returned, HandleWebsocket eventually returns, the session closed.
C33_DispatchEventuallyReturns ==
    \A s \in Sessions :
        ImplReturned(s) ~> (disp[s] = "returned" /\ closeLog[s] # <<>>)

\* HandleWebsocket has returned from a session whose implementation returned,
\* with the Reader pump still trying to push a message.
C33_Witness ==
    /\ disp["s1"] = "returned"
    /\ impl["s1"] = "exited"
    /\ closeLog["s1"] # <<>>
    /\ reader["s1"] = "send"

\* C34: `done` and `read` never hold more than one value; the implementation's
\* goroutine finds `done` empty when it reports, and has reported once it is
\* past that point; the Reader pump puts a value on `read` only as it leaves
\* its loop, so it sends at most one; neither send can block.
C34_ReportingNeverBlocks ==
    \A s \in Sessions :
        /\ Len(doneCh[s]) <= 1
        /\ Len(readCh[s]) <= 1
        /\ impl[s] = "report" => doneCh[s] = <<>>
        /\ doneCh[s] # <<>> => impl[s] \in {"closeOut", "exited"}
        /\ readCh[s] # <<>> => reader[s] \in {"closeIn", "closeRead", "exited"}

\* The dispatcher took the Reader pump's error and returned; the implementation
\* returned later and its goroutine finished, its report left in `done`.
C34_Witness ==
    /\ disp["s1"] = "returned"
    /\ impl["s1"] = "exited"
    /\ doneCh["s1"] # <<>>
    /\ reader["s1"] = "exited"
    /\ final["s1"].err = ErrAbnormal

\* The payloads of the text frames session s has read and decoded, in order.
DecodedFrames(s) == PayloadsOf(SelectSeq(rlog[s], IsTextEvent))

\* C35: in every reachable state the messages the implementation received from
\* the inbound queue are a prefix of the text frames read and decoded from the
\* connection, in arrival order; each decoded frame is delivered at most once,
\* and at most one decoded frame is waiting to be delivered.
C35_ReceivedIsPrefixOfDecoded ==
    \A s \in Sessions :
        /\ IsPrefix(received[s], DecodedFrames(s))
        /\ Len(DecodedFrames(s)) <= Len(received[s]) + 1
        /\ reader[s] \in {"check2", "send"} =>
               /\ Len(DecodedFrames(s)) = Len(received[s]) + 1
               /\ rmsg[s] = DecodedFrames(s)[Len(DecodedFrames(s))]

\* Two frames were decoded, the first delivered; the second was dropped by the
\* Reader pump, which found the context cancelled and exited.
C35_Witness ==
    /\ rlog["s1"] = <<Event("text", 2), Event("text", 1)>>
    /\ received["s1"] = <<2>>
    /\ reader["s1"] = "exited"
    /\ readCh["s1"] = <<>>

\* The data frames written on the connection of session s.
DataFrames(s) == SelectSeq(wire[s], IsDataFrame)

\* The dispatcher of session s has closed it with code 1011 and the text of its
\* final error, the implementation's or the Reader pump's.
ClosedOnFinalError(s) ==
    /\ closeLog[s] # <<>>
    /\ final[s].err # "nil"
    /\ closeLog[s][1] = [code |-> CloseInternalServerErr, reason |-> Reason("", final[s].err)]

\* C36: in a ClientStream session at most one data frame is ever written; it is
\* written by the dispatcher, after the select has taken the implementation's
\* result, a response with a nil error, and it carries that response; a session
\* closed with 1011 on an implementation error or a Reader-pump error has no
\* data frame.
C36_ClientStreamWritesOneResponse ==
    \A s \in Sessions :
        /\ (DataFrames(s) # <<>> /\ Routed(s, StreamingTypeClientStream)) =>
              /\ DataFrames(s) = <<DataFrame("dispatcher", final[s].resp)>>
              /\ final[s].hasResp
              /\ final[s].err = "nil"
              /\ final[s].resp = implRet[s].resp
              /\ implRet[s].err = "nil"
              /\ impl[s] = "exited"
              /\ disp[s] \in {"cancel", "returned"}
        /\ (ClosedOnFinalError(s) /\ Routed(s, StreamingTypeClientStream)) =>
              DataFrames(s) = <<>>

\* A ClientStream session that received a message, wrote its one response and
\* closed normally.
C36_Witness ==
    /\ disp["s1"] = "returned"
    /\ received["s1"] # <<>>
    /\ Len(wire["s1"]) = 2
    /\ wire["s1"][1] = DataFrame("dispatcher", final["s1"].resp)
    /\ wire["s1"][2] = CloseFrame(CloseNormalClosure, Reason("", ""))
    /\ Routed("s1", StreamingTypeClientStream)

\* The close control frames written on the connection of session s.
IsCloseControl(f) == f.t = "close"
CloseCodes == {CloseNormalClosure, CloseInternalServerErr}

\* C37: every close control frame the dispatch layer writes, or tries to write,
\* carries 1000 or 1011; 1000 only in a session routed to a streaming
\* convention whose implementation was invoked and whose final error is nil or
\* a normal closure; a session rejected before invocation, and a session whose
\* final error is anything else, is closed with 1011.
C37_CloseCodes ==
    \A s \in Sessions :
        /\ \A i \in 1..Len(wire[s]) :
              IsCloseControl(wire[s][i]) =>
                  /\ wire[s][i].code \in CloseCodes
                  /\ closeLog[s] = <<[code |-> wire[s][i].code, reason |-> wire[s][i].reason]>>
        /\ \A i \in 1..Len(closeLog[s]) :
              /\ closeLog[s][i].code \in CloseCodes
              /\ closeLog[s][i].code = CloseNormalClosure =>
                    /\ impl[s] # "none"
                    /\ final[s].err \in {"nil", ErrNormalClose}
                    /\ Classify(s).type \in {StreamingTypeBidirectional,
                                             StreamingTypeServerStream,
                                             StreamingTypeClientStream}
                    /\ RejectReason(s) = NoReject
              /\ (impl[s] = "none" \/ final[s].err \notin {"nil", ErrNormalClose}) =>
                    closeLog[s][i].code = CloseInternalServerErr

\* A bidirectional session whose implementation returned a normal-closure error
\* was closed with 1000, the frame written.
C37_Witness ==
    /\ disp["s1"] = "returned"
    /\ final["s1"].err = ErrNormalClose
    /\ implRet["s1"].err = ErrNormalClose
    /\ closeLog["s1"] = <<[code |-> CloseNormalClosure, reason |-> Reason("", "")]>>
    /\ wire["s1"] # <<>>
    /\ wire["s1"][Len(wire["s1"])] = CloseFrame(CloseNormalClosure, Reason("", ""))
    /\ Routed("s1", StreamingTypeBidirectional)

UnaryNotSupported == Reason("unary methods are not supported over WebSocket", "")

\* The call of session s resolves to an implementation that is validly
\* classified Unary.
ValidUnary(s) ==
    /\ md[s].found
    /\ method[s].valid
    /\ Classify(s).err = "nil"
    /\ Classify(s).type = StreamingTypeUnary

\* C38: once HandleWebsocket has acted on a call to a validly classified unary
\* method, the session is closed with 1011 and the reason "unary methods are
\* not supported over WebSocket"; the implementation is not invoked and
\* neither pump is started, so nothing is read and no data frame is written.
C38_UnaryRejectedOverWebSocket ==
    \A s \in Sessions :
        (disp[s] # "start" /\ ValidUnary(s)) =>
            /\ KindOfFlags(md[s]) = StreamingTypeUnary
            /\ disp[s] = "returned"
            /\ closeLog[s] = <<[code |-> CloseInternalServerErr, reason |-> UnaryNotSupported]>>
            /\ impl[s] = "none"
            /\ reader[s] = "none"
            /\ writer[s] = "none"
            /\ rlog[s] = <<>>
            /\ received[s] = <<>>
            /\ sent[s] = <<>>
            /\ wire[s] \in {<<>>, <<CloseFrame(CloseInternalServerErr, UnaryNotSupported)>>}

\* A unary call over the duplex transport was rejected, the close frame written.
C38_Witness ==
    /\ disp["s1"] = "returned"
    /\ wire["s1"] = <<CloseFrame(CloseInternalServerErr, UnaryNotSupported)>>
    /\ impl["s1"] = "none"
    /\ ValidUnary("s1")

\* The schema has the method of the unary request, the Server has no method of
\* that name.
UnaryUnimplemented == httpReq # NoRequest /\ ~AbsentFromSchema /\ ~httpReq.method.valid

\* The schema has the method called in session s, the Server has no method of
\* that name.
Unimplemented(s) == md[s].found /\ ~method[s].valid

\* C39: for a method the schema has and the Server lacks, Handle never invokes
\* anything and never answers 404, and the one response of a request that
\* reached the call is a 500 with "method not found"; HandleWebsocket closes
\* the session with 1011 and "method not found", whatever the classification
\* would have said, without invoking anything or starting a pump.
C39_UnimplementedMethod ==
    /\ UnaryUnimplemented =>
          /\ httpArgs = <<>>
          /\ Occurrences("invoke") = 0
          /\ httpPc # "panicked"
          /\ httpPc = "returned" =>
                /\ Len(httpResp) = 1
                /\ httpResp[1].status # StatusNotFound
                /\ ReachesCall =>
                      httpResp = <<httpError("method not found", StatusInternalServerError)>>
    /\ \A s \in Sessions :
          (disp[s] \notin {"idle", "start"} /\ Unimplemented(s)) =>
              /\ disp[s] = "returned"
              /\ closeLog[s] = <<[code |-> CloseInternalServerErr,
                                  reason |-> Reason("method not found", "")]>>
              /\ impl[s] = "none"
              /\ reader[s] = "none"
              /\ writer[s] = "none"
              /\ wire[s] \in {<<>>, <<CloseFrame(CloseInternalServerErr,
                                                 Reason("method not found", ""))>>}

\* Handle has read and decoded the body of a request for a method the Server
\* lacks and answered 500 "method not found".
C39_Witness ==
    /\ UnaryUnimplemented
    /\ httpPc = "returned"
    /\ Occurrences("decode") = 1
    /\ httpResp = <<httpError("method not found", StatusInternalServerError)>>
    /\ httpArgs = <<>>

\* HandleWebsocket has closed a session calling a method the Server lacks.
UnimplementedSessionClosed ==
    /\ Unimplemented("s1")
    /\ disp["s1"] = "returned"
    /\ wire["s1"] = <<CloseFrame(CloseInternalServerErr, Reason("method not found", ""))>>

\* The place of each effect in Handle's order of steps.
Rank(x) ==
    CASE x = "find" -> 1
      [] x = "read" -> 2
      [] x = "decode" -> 3
      [] x = "invoke" -> 4
      [] x = "marshal" -> 5
      [] OTHER -> 6

\* The effects Handle has performed are in the order of its steps, none twice.
StepsInOrder ==
    \A i, j \in 1..Len(httpLog) : i < j => Rank(httpLog[i]) < Rank(httpLog[j])

\* The request declares a body that is short or is not the JSON of a message.
DeclaredBodyBad == httpReq.body.contentLength > 0 /\ BadBody

\* s.call rejects the Server's method before calling it, whatever the body.
CallCheckFails ==
    callCheck(httpReq.method, message(httpReq.md).type, TRUE) # "nil"

\* C40: Handle's steps run in the order resolve, read, decode, invoke, encode;
\* its one response ends it; a returned request has the status of its earliest
\* failing check (404 for the schema, then 400 for the body, then 500 for the
\* method or the implementation's error, then 500 or 200 for the encoding), and
\* no step after the failing one has run.
C40_ChecksAreOrdered ==
    /\ StepsInOrder
    /\ httpLog # <<>> => httpLog[1] = "find"
    /\ Len(httpResp) <= 1
    /\ httpResp # <<>> => httpPc = "returned"
    /\ httpPc = "returned" =>
        /\ Len(httpResp) = 1
        /\ AbsentFromSchema =>
              /\ httpResp[1].status = StatusNotFound
              /\ httpLog = <<"find">>
        /\ (~AbsentFromSchema /\ DeclaredBodyBad) =>
              /\ httpResp[1].status = StatusBadRequest
              /\ httpLog \in {<<"find", "read">>, <<"find", "read", "decode">>}
              /\ httpArgs = <<>>
        /\ (~AbsentFromSchema /\ ~DeclaredBodyBad /\ CallCheckFails) =>
              /\ httpResp[1].status = StatusInternalServerError
              /\ Occurrences("invoke") = 0
              /\ Occurrences("marshal") = 0
        /\ (Occurrences("invoke") = 1 /\ httpRet[2] # "nil") =>
              /\ httpResp[1].status = StatusInternalServerError
              /\ Occurrences("marshal") = 0
        /\ httpResp[1].status = StatusNotFound => AbsentFromSchema
        /\ httpResp[1].status = StatusBadRequest => (~AbsentFromSchema /\ DeclaredBodyBad)
        /\ httpResp[1].status \in {StatusInternalServerError, StatusOK} =>
              (~AbsentFromSchema /\ ~DeclaredBodyBad)
        /\ Occurrences("marshal") = 1 =>
              /\ Occurrences("invoke") = 1
              /\ httpRet[2] = "nil"
              /\ ~CallCheckFails
              /\ httpResp[1].status \in {StatusInternalServerError, StatusOK}
        /\ httpResp[1].status = StatusOK => Occurrences("marshal") = 1

\* A request with a malformed body for a method the Server lacks was answered
\* 400, the method never looked up.
C40_Witness ==
    /\ httpPc = "returned"
    /\ ~AbsentFromSchema
    /\ DeclaredBodyBad
    /\ ~httpReq.method.valid
    /\ httpLog = <<"find", "read", "decode">>
    /\ Len(httpResp) = 1
    /\ httpResp[1].status = StatusBadRequest

====
